---------------------------- MODULE Spec2Model ----------------------------
(***************************************************************************)
(* A model of the JSON reader (src/lib_json/json_reader.cpp) and of the    *)
(* compact writer (src/lib_json/json_writer.cpp).                          *)
(*                                                                         *)
(* A document is a sequence of bytes (integers 0..255).  Locations are     *)
(* offsets from begin_: location p designates doc[p+1], and end_ is        *)
(* Len(doc).  The Value tree is kept as the sequence `nodes` of the Values *)
(* the reader materialised, each with its parent, its key, its payload,    *)
(* its offsets and its three comment slots.  The activations of readArray  *)
(* and readObject are the frames of `stack`.                               *)
(***************************************************************************)
EXTENDS Integers, Sequences, FiniteSets, TLC

VARIABLES
  doc,          \* the bytes [begin_, end_) handed to parse
  features,     \* features_ : the Reader's Features
  collectArg,   \* the collectComments argument of parse
  rootIn,       \* the Value the caller passes as root
  collect,      \* collectComments_
  current,      \* current_ - begin_
  token,        \* token_ : [type, start, end]
  errors,       \* errors_
  nodes,        \* the Value tree, nodes[1] is root
  stack,        \* activations of readArray / readObject, innermost last
  pc,           \* where the reader is
  cur,          \* the Value readValue is called on
  ret,          \* what the last readValue returned
  result,       \* what parse returned
  source,       \* the Value handed to the writer
  pushed,       \* the last call of pushError : its arguments and what it returned
  located       \* the lines and columns getFormattedErrorMessages last reported

vars == <<doc, features, collectArg, rootIn, collect, current, token, errors,
          nodes, stack, pc, cur, ret, result, source, pushed, located>>

-----------------------------------------------------------------------------
(* The characters the code names.                                           *)

ChBS == 8
ChTab == 9
ChLF == 10
ChFF == 12
ChCR == 13
ChSpace == 32
ChQuote == 34
ChStar == 42
ChPlus == 43
ChComma == 44
ChMinus == 45
ChDot == 46
ChSlash == 47
Ch0 == 48
Ch9 == 57
ChColon == 58
ChUpperA == 65
ChUpperE == 69
ChUpperF == 70
ChLBracket == 91
ChBackslash == 92
ChRBracket == 93
ChLowerA == 97
ChLowerB == 98
ChLowerE == 101
ChLowerF == 102
ChLowerN == 110
ChLowerR == 114
ChLowerT == 116
ChLowerU == 117
ChLBrace == 123
ChRBrace == 125

\* "true", "false", "null" without their first character
PatternTrue == <<114, 117, 101>>

PatternFalse == <<97, 108, 115, 101>>

PatternNull == <<117, 108, 108>>

IsDigit(c) == c >= Ch0 /\ c <= Ch9

\* *p for a location p < end_
At(p) == doc[p + 1]

DocLen == Len(doc)

\* the bytes [from, to) of the document
DocText(from, to) == SubSeq(doc, from + 1, to)

-----------------------------------------------------------------------------
(* The lexer.  Every sub-lexer takes the location current_ and returns the  *)
(* token type together with the new current_.                               *)

Lexed(type, p) == [type |-> type, current |-> p]

\* Reader::getNextChar : the character, 0 at end_
NextChar(p) == IF p = DocLen THEN 0 ELSE At(p)

\* Reader::getNextChar : the new current_
NextCurrent(p) == IF p = DocLen THEN p ELSE p + 1

\* the whitespace loop of Reader::readToken
RECURSIVE SkipSpaces(_, _)
SkipSpaces(p, linebreak) ==
  IF p = DocLen THEN [current |-> p, linebreak |-> linebreak]
  ELSE IF At(p) = ChCR \/ At(p) = ChLF THEN SkipSpaces(p + 1, TRUE)
  ELSE IF At(p) # ChSpace /\ At(p) # ChTab
         THEN [current |-> p, linebreak |-> linebreak]
  ELSE SkipSpaces(p + 1, linebreak)

\* Reader::match : pattern is what follows the first character
RECURSIVE MatchFrom(_, _, _)
MatchFrom(pattern, index, p) ==
  IF index = Len(pattern) THEN TRUE
  ELSE IF index >= DocLen - p THEN FALSE
  ELSE IF At(p + index) # pattern[index + 1] THEN FALSE
  ELSE MatchFrom(pattern, index + 1, p)

Match(pattern, type, p) ==
  IF MatchFrom(pattern, 0, p) THEN Lexed(type, p + Len(pattern))
  ELSE Lexed("Error", p)

\* Reader::readCStyleComment : c is the byte read before
RECURSIVE ReadCStyleCommentFrom(_, _)
ReadCStyleCommentFrom(p, c) ==
  IF p = DocLen THEN Lexed("Error", p)
  ELSE IF c = ChStar /\ At(p) = ChSlash THEN Lexed("Comment", p + 1)
  ELSE ReadCStyleCommentFrom(p + 1, At(p))

ReadCStyleComment(p) == ReadCStyleCommentFrom(p, 0)

\* Reader::readCppStyleComment
RECURSIVE ReadCppStyleComment(_)
ReadCppStyleComment(p) ==
  IF p = DocLen THEN Lexed("Comment", p)
  ELSE IF At(p) = ChCR \/ At(p) = ChLF THEN Lexed("Comment", p)
  ELSE ReadCppStyleComment(p + 1)

\* c = (current_ = p) < end_ ? *p++ : 0
Peek(p) == IF p < DocLen THEN At(p) ELSE 0

RECURSIVE SkipDigits(_)
SkipDigits(p) == IF IsDigit(Peek(p)) THEN SkipDigits(p + 1) ELSE p

\* Reader::readNumber, the exponential part : c was read at p
ReadExponent(p) ==
  IF Peek(p) = ChLowerE \/ Peek(p) = ChUpperE
    THEN IF Peek(p + 1) = ChPlus \/ Peek(p + 1) = ChMinus
           THEN SkipDigits(p + 2)
           ELSE SkipDigits(p + 1)
    ELSE p

\* Reader::readNumber, the fractional part : c was read at p
ReadFraction(p) == IF Peek(p) = ChDot THEN SkipDigits(p + 1) ELSE p

\* Reader::readNumber : the first character is consumed already
ReadNumber(p) == Lexed("Number", ReadExponent(ReadFraction(SkipDigits(p))))

\* Reader::readString
RECURSIVE ReadString(_)
ReadString(p) ==
  IF NextChar(p) = 0 THEN Lexed("Error", NextCurrent(p))
  ELSE IF At(p) = ChQuote THEN Lexed("String", p + 1)
  ELSE IF At(p) = ChBackslash THEN ReadString(NextCurrent(p + 1))
  ELSE ReadString(p + 1)

\* the inner switch of Reader::readToken after '/'
ReadComment(p) ==
  IF NextChar(p) = ChStar THEN ReadCStyleComment(p + 1)
  ELSE IF NextChar(p) = ChSlash THEN ReadCppStyleComment(p + 1)
  ELSE Lexed("Error", NextCurrent(p))

\* the switch of Reader::readToken, on the first character c read at p - 1
Dispatch(c, p) ==
  CASE c = ChLBrace -> Lexed("ObjectBegin", p)
    [] c = ChRBrace -> Lexed("ObjectEnd", p)
    [] c = ChLBracket -> Lexed("ArrayBegin", p)
    [] c = ChRBracket -> Lexed("ArrayEnd", p)
    [] c = ChQuote -> ReadString(p)
    [] c = ChSlash -> ReadComment(p)
    [] IsDigit(c) \/ c = ChMinus -> ReadNumber(p)
    [] c = ChLowerT -> Match(PatternTrue, "True", p)
    [] c = ChLowerF -> Match(PatternFalse, "False", p)
    [] c = ChLowerN -> Match(PatternNull, "Null", p)
    [] c = ChComma -> Lexed("ArraySeparator", p)
    [] c = ChColon -> Lexed("MemberSeparator", p)
    [] c = 0 -> Lexed("EndOfStream", p)
    [] OTHER -> Lexed("Error", p)

Token(type, start, end) == [type |-> type, start |-> start, end |-> end]

\* a readToken that leaves current_ at the start of the token
ScannedInPlace(start, linebreak, lx) ==
  [token     |-> Token(lx.type, start, lx.current),
   current   |-> start,
   linebreak |-> linebreak]

Scanned(start, linebreak, lx) ==
  [token     |-> Token(lx.type, start, lx.current),
   current   |-> lx.current,
   linebreak |-> linebreak]

TokenAfter(ws) ==
  Scanned(ws.current, ws.linebreak,
          Dispatch(NextChar(ws.current), NextCurrent(ws.current)))

\* Reader::readToken from current_ = p : the token, the new current_ and
\* whether a line break was skipped
ReadToken(p) == TokenAfter(SkipSpaces(p, FALSE))

-----------------------------------------------------------------------------
(* Diagnostics.  A message is its fixed text and, for "is not a number.",   *)
(* the token text it quotes.  NoExtra is the null extra_ location.          *)

NoExtra == 0 - 1

Msg(text) == [text |-> text, arg |-> <<>>]

NotANumber(text) == [text |-> "' is not a number.", arg |-> text]

ErrorInfo(tok, msg, extra) == [token |-> tok, message |-> msg, extra |-> extra]

\* Reader::addError
AddError(errs, tok, msg, extra) == Append(errs, ErrorInfo(tok, msg, extra))

-----------------------------------------------------------------------------
(* Reader::decodeNumber.  LargestUInt is a word of WordBits bits and        *)
(* LargestInt its two's complement reading; the arithmetic is the code's,   *)
(* carried out modulo 2^WordBits.                                           *)

WordBits == 6

Modulus == 2 ^ WordBits

MaxInt == 2 ^ (WordBits - 1) - 1

MinInt == 0 - 2 ^ (WordBits - 1)

MaxUInt == Modulus - 1

\* Value::LargestInt(value) for an unsigned word
ToSigned(u) == IF u > MaxInt THEN u - Modulus ELSE u

\* The builds of "-x" on LargestInt.  Negating the least LargestInt
\* overflows, which is undefined: a build either negates in two's
\* complement ("wrap") or uses that -a > -b is b > a ("fold").
NegateBuilds == {"wrap", "fold"}

\* -x as the two's complement instruction computes it
Negate(x) == IF x = MinInt THEN MinInt ELSE 0 - x

\* -Value::LargestInt(value) > -Value::LargestInt(delta)      (line 471)
NegatedGreater(value, delta, build) ==
  IF build = "fold" THEN ToSigned(delta) > ToSigned(value)
  ELSE Negate(ToSigned(value)) > Negate(ToSigned(delta))

Acc(value, isSigned, isUnsigned) ==
  [value |-> value, isSigned |-> isSigned, isUnsigned |-> isUnsigned]

\* one step "value += delta" with its two overflow tests   (lines 470 - 474)
Step(acc, value, delta, build) ==
  Acc(value, acc.isSigned /\ ~NegatedGreater(value, delta, build),
      acc.isUnsigned /\ ~(value < delta))

\* the ten steps of one digit (lines 469 - 476) : once both witnesses are
\* false a step only adds
\* acc is taken by its value
RECURSIVE TenSteps(_, _, _, _, _)
TenSteps(i, acc, delta, val, build) ==
  IF i = 10 THEN acc
  ELSE CHOOSE next \in
         {IF a.isSigned \/ a.isUnsigned
            THEN TenSteps(i + 1, Step(a, (a.value + delta) % Modulus, delta, build),
                          val, val, build)
            ELSE TenSteps(i + 1, Acc((a.value + delta) % Modulus, FALSE, FALSE),
                          val, val, build) : a \in {acc}} : TRUE

\* the loop over the token's characters, acc being taken by its value
\*                                                         (lines 460 - 477)
RECURSIVE Accumulate(_, _, _, _)
Accumulate(text, i, acc, build) ==
  IF i > Len(text) THEN acc
  ELSE IF ~IsDigit(text[i]) THEN Acc(acc.value, FALSE, FALSE)
  ELSE CHOOSE next \in
         {Accumulate(text, i + 1, TenSteps(0, a, text[i] - Ch0, a.value, build),
                     build) : a \in {acc}} : TRUE

RECURSIVE DigitsEnd(_, _)
DigitsEnd(text, i) ==
  IF i <= Len(text) /\ IsDigit(text[i]) THEN DigitsEnd(text, i + 1) ELSE i

RECURSIVE DigitsValue(_)
DigitsValue(ds) ==
  IF ds = <<>> THEN 0
  ELSE (10 * DigitsValue(SubSeq(ds, 1, Len(ds) - 1))) + (ds[Len(ds)] - Ch0)

RECURSIVE NumDigits(_)
NumDigits(n) == IF n < 10 THEN 1 ELSE 1 + NumDigits(n \div 10)

RECURSIVE Normalize(_, _)
Normalize(mant, exp) ==
  IF mant # 0 /\ mant % 10 = 0 THEN Normalize(mant \div 10, exp + 1)
  ELSE <<mant, exp>>

\* the largest decimal exponent of a finite double
MaxDecimalExponent == 308

\* A double is <<class, negative, mantissa, exponent>> : class 0 is the
\* finite value mantissa * 10^exponent with a mantissa that does not end in
\* 0, class 1 an infinity, class 2 a NaN.
Normalized(neg, n) ==
  IF NumDigits(n[1]) + n[2] - 1 > MaxDecimalExponent THEN <<1, neg, 0, 0>>
  ELSE <<0, neg, n[1], n[2]>>

Finite(neg, mant, exp) ==
  IF mant = 0 THEN <<0, neg, 0, 0>> ELSE Normalized(neg, Normalize(mant, exp))

BoolInt(b) == IF b THEN 1 ELSE 0

IsNegative(text) == Len(text) >= 1 /\ text[1] = ChMinus

\* sscanf(buffer, "%lf%c", ...) : count is the number of conversions, 0
\* without a mantissa digit, 2 when a character is left after the number
Converted(text, stop, value) ==
  [count |-> IF stop > Len(text) THEN 1 ELSE 2, value |-> value]

\* the exponent's digits are text[i3 .. i4 - 1]; without any, the number
\* ends at i2
ScanDone(text, neg, mant, nfrac, esign, i2, i3, i4) ==
  IF i4 > i3
    THEN Converted(text, i4,
           Finite(neg, mant,
                  (esign * DigitsValue(SubSeq(text, i3, i4 - 1))) - nfrac))
    ELSE Converted(text, i2, Finite(neg, mant, 0 - nfrac))

ScanExponent(text, neg, digits, nfrac, i2) ==
  IF Len(digits) = 0 THEN [count |-> 0, value |-> <<0, 0, 0, 0>>]
  ELSE IF i2 <= Len(text) /\ (text[i2] = ChLowerE \/ text[i2] = ChUpperE)
    THEN IF i2 + 1 <= Len(text) /\ text[i2 + 1] = ChMinus
           THEN ScanDone(text, neg, DigitsValue(digits), nfrac, 0 - 1, i2,
                         i2 + 2, DigitsEnd(text, i2 + 2))
         ELSE IF i2 + 1 <= Len(text) /\ text[i2 + 1] = ChPlus
           THEN ScanDone(text, neg, DigitsValue(digits), nfrac, 1, i2,
                         i2 + 2, DigitsEnd(text, i2 + 2))
         ELSE ScanDone(text, neg, DigitsValue(digits), nfrac, 1, i2,
                       i2 + 1, DigitsEnd(text, i2 + 1))
  ELSE Converted(text, i2, Finite(neg, DigitsValue(digits), 0 - nfrac))

ScanFractionEnd(text, neg, i0, i1, i2) ==
  ScanExponent(text, neg, SubSeq(text, i0, i1 - 1) \o SubSeq(text, i1 + 1, i2 - 1),
               i2 - (i1 + 1), i2)

ScanFraction(text, neg, i0, i1) ==
  IF i1 <= Len(text) /\ text[i1] = ChDot
    THEN ScanFractionEnd(text, neg, i0, i1, DigitsEnd(text, i1 + 1))
    ELSE ScanExponent(text, neg, SubSeq(text, i0, i1 - 1), 0, i1)

ScanFrom(text, neg, i0) == ScanFraction(text, neg, i0, DigitsEnd(text, i0))

Sscanf(text) ==
  IF IsNegative(text) THEN ScanFrom(text, 1, 2) ELSE ScanFrom(text, 0, 1)

Decoded(type, val) == [ok |-> TRUE, type |-> type, val |-> val]

\* lines 482 - 506
DecodeDouble(d) ==
  IF d.count # 1 THEN [ok |-> FALSE, type |-> "null", val |-> <<>>]
  ELSE Decoded("real", d.value)

\* lines 478 - 506
Triage(text, isNegative, acc) ==
  IF acc.isSigned /\ (isNegative \/ ToSigned(acc.value) >= 0)
    THEN Decoded("int", <<IF isNegative THEN Negate(ToSigned(acc.value))
                                        ELSE ToSigned(acc.value)>>)
  ELSE IF acc.isUnsigned /\ ~isNegative THEN Decoded("uint", <<acc.value>>)
  ELSE DecodeDouble(Sscanf(text))

\* Reader::decodeNumber on the token text, as the build compiles line 471
DecodeNumber(text, build) ==
  Triage(text, IsNegative(text),
         Accumulate(text, IF IsNegative(text) THEN 2 ELSE 1,
                    Acc(0, TRUE, TRUE), build))

-----------------------------------------------------------------------------
(* Reader::decodeString.                                                    *)

\* codePointToUTF8 of json_tool.h
CodePointToUTF8(cp) ==
  IF cp <= 127 THEN <<cp>>
  ELSE IF cp <= 2047 THEN <<192 + (cp \div 64), 128 + (cp % 64)>>
  ELSE IF cp <= 65535
    THEN <<224 + (cp \div 4096), 128 + ((cp \div 64) % 64), 128 + (cp % 64)>>
  ELSE IF cp <= 1114111
    THEN <<240 + (cp \div 262144), 128 + ((cp \div 4096) % 64),
           128 + ((cp \div 64) % 64), 128 + (cp % 64)>>
  ELSE <<>>

\* the value of a hexadecimal digit, or -1                 (lines 597 - 604)
HexValue(c) ==
  IF c >= Ch0 /\ c <= Ch9 THEN c - Ch0
  ELSE IF c >= ChLowerA /\ c <= ChLowerF THEN c - ChLowerA + 10
  ELSE IF c >= ChUpperA /\ c <= ChUpperF THEN c - ChUpperA + 10
  ELSE 0 - 1

\* the loop of Reader::decodeUnicodeEscapeSequence
RECURSIVE HexLoop(_, _, _)
HexLoop(p, index, unicode) ==
  IF index = 4 THEN [unicode |-> unicode, current |-> p]
  ELSE IF HexValue(At(p)) < 0 THEN [unicode |-> 0, current |-> p + 1]
  ELSE HexLoop(p + 1, index + 1, (unicode * 16) + HexValue(At(p)))

\* Reader::decodeUnicodeEscapeSequence : the code unit and the new current
DecodeUnicodeEscapeSequence(p, end) ==
  IF end - p < 4 THEN [unicode |-> 0, current |-> p]
  ELSE HexLoop(p, 0, 0)

IsHighSurrogate(cp) == cp >= 55296 /\ cp <= 56319

IsLowSurrogate(cp) == cp >= 56320 /\ cp <= 57343

\* codepoint &= 0x3FF; codepoint |= (surrogate & 0x3FF) << 10;
\* codepoint += 0x10000
Combine(surrogate, codepoint) ==
  (codepoint % 1024) + ((surrogate % 1024) * 1024) + 65536

StringFailed(text, p) ==
  [ok |-> FALSE, decoded |-> <<>>, message |-> Msg(text), extra |-> p]

StringDone(decoded) ==
  [ok |-> TRUE, decoded |-> decoded, message |-> Msg(""), extra |-> NoExtra]

\* what a simple escape character stands for, or -1        (lines 530 - 547)
SimpleEscape(c) ==
  CASE c = ChLowerB -> ChBS
    [] c = ChLowerF -> ChFF
    [] c = ChLowerN -> ChLF
    [] c = ChLowerR -> ChCR
    [] c = ChLowerT -> ChTab
    [] c = ChQuote \/ c = ChSlash \/ c = ChBackslash -> c
    [] OTHER -> 0 - 1

\* The loop of Reader::decodeString(std::string&)          (lines 524 - 587)
\* DecodeStep is one iteration at p, AfterEscapeU what follows the call of
\* decodeUnicodeEscapeSequence, Continue the loop's test.
RECURSIVE DecodeStep(_, _, _, _)

Continue(p, end, surrogate, decoded) ==
  IF p < end THEN DecodeStep(p, end, surrogate, decoded) ELSE StringDone(decoded)

AfterEscapeU(end, surrogate, decoded, u) ==
  IF u.unicode = 0 THEN StringFailed("Bad escape sequence in string", u.current)
  ELSE IF IsHighSurrogate(u.unicode)
    THEN IF surrogate # 0
           THEN StringFailed("Misplaced UTF-16 surrogate", u.current)
           ELSE Continue(u.current, end, u.unicode, decoded)
  ELSE IF IsLowSurrogate(u.unicode)
    THEN IF surrogate = 0
           THEN StringFailed("Misplaced UTF-16 surrogate", u.current)
           ELSE Continue(u.current, end, 0,
                         decoded \o CodePointToUTF8(Combine(surrogate, u.unicode)))
  ELSE Continue(u.current, end, surrogate, decoded \o CodePointToUTF8(u.unicode))

DecodeStep(p, end, surrogate, decoded) ==
  IF At(p) # ChBackslash
    THEN IF surrogate # 0 THEN StringFailed("Misplaced UTF-16 surrogate", p + 1)
         ELSE Continue(p + 1, end, surrogate, Append(decoded, At(p)))
  ELSE IF At(p + 1) = ChLowerU
    THEN AfterEscapeU(end, surrogate, decoded,
                      DecodeUnicodeEscapeSequence(p + 2, end))
  ELSE IF SimpleEscape(At(p + 1)) < 0
    THEN StringFailed("Bad escape sequence in string", p + 2)
  ELSE IF surrogate # 0 THEN StringFailed("Misplaced UTF-16 surrogate", p + 2)
  ELSE Continue(p + 2, end, surrogate, Append(decoded, SimpleEscape(At(p + 1))))

\* Reader::decodeString(std::string&) on the String token tok
DecodeString(tok) == Continue(tok.start + 1, tok.end - 1, 0, <<>>)

-----------------------------------------------------------------------------
(* The writer's primitives (json_writer.cpp).                               *)

\* uintToString of json_tool.h : decimal, minimal digits
RECURSIVE UIntToString(_)
UIntToString(u) ==
  IF u < 10 THEN <<Ch0 + u>>
  ELSE Append(UIntToString(u \div 10), Ch0 + (u % 10))

\* a writer that forgets the sign
ValueToStringMagnitude(value) ==
  IF value < 0 THEN UIntToString(0 - value) ELSE UIntToString(value)

\* valueToString(LargestInt).  "value = -value" overflows on the least
\* LargestInt; the word is only converted to LargestUInt afterwards, no test
\* reads it, so that each build leaves the negate instruction's word, whose
\* unsigned reading is 2^(WordBits-1).
ValueToStringInt(value) ==
  IF value < 0 THEN <<ChMinus>> \o UIntToString(0 - value)
  ELSE UIntToString(value)

\* valueToString(LargestUInt)
ValueToStringUInt(value) == UIntToString(value)

Zeros(n) == [i \in 1..n |-> Ch0]

\* the exponent of the %e style : a sign and at least two digits
PrintExponent(x) ==
  IF x < 0
    THEN <<ChLowerE, ChMinus>> \o (IF 0 - x < 10 THEN <<Ch0>> ELSE <<>>)
         \o UIntToString(0 - x)
    ELSE <<ChLowerE, ChPlus>> \o (IF x < 10 THEN <<Ch0>> ELSE <<>>)
         \o UIntToString(x)

\* %.17g of the digits ds scaled by 10^exp, where x is the decimal exponent
\* of the first digit
PrintDigits(ds, exp, x) ==
  IF x < 0 - 4 \/ x >= 17
    THEN <<ds[1]>> \o (IF Len(ds) > 1 THEN <<ChDot>> \o Tail(ds) ELSE <<>>)
         \o PrintExponent(x)
  ELSE IF exp >= 0 THEN ds \o Zeros(exp)
  ELSE IF Len(ds) > 0 - exp
    THEN SubSeq(ds, 1, Len(ds) + exp) \o <<ChDot>>
         \o SubSeq(ds, Len(ds) + exp + 1, Len(ds))
  ELSE <<Ch0, ChDot>> \o Zeros((0 - exp) - Len(ds)) \o ds

\* snprintf(buffer, sizeof(buffer), "%.17g", value) of a finite double whose
\* shortest decimal expansion is exact and has at most 17 digits
PrintG17(mant, exp) ==
  IF mant = 0 THEN <<Ch0>>
  ELSE PrintDigits(UIntToString(mant), exp, NumDigits(mant) + exp - 1)

\* "null"
TextNull == <<110, 117, 108, 108>>

\* "true"
TextTrue == <<116, 114, 117, 101>>

\* "false"
TextFalse == <<102, 97, 108, 115, 101>>

\* "1e+9999"
TextInfinity == <<49, 101, 43, 57, 57, 57, 57>>

\* valueToString(double)
ValueToStringDouble(d) ==
  IF d[1] = 2 THEN TextNull
  ELSE IF d[1] = 1 THEN (IF d[2] = 1 THEN <<ChMinus>> ELSE <<>>) \o TextInfinity
  ELSE (IF d[2] = 1 THEN <<ChMinus>> ELSE <<>>) \o PrintG17(d[3], d[4])

\* valueToString(bool)
ValueToStringBool(b) == IF b THEN TextTrue ELSE TextFalse

\* isControlCharacter of json_tool.h
IsControlCharacter(ch) == ch > 0 /\ ch <= 31

\* std::hex << std::uppercase of one hexadecimal digit
HexDigit(n) == IF n < 10 THEN Ch0 + n ELSE ChUpperA + (n - 10)

\* a switch that escapes the quote alone
EscapeQuoteOnly(c) == IF c = ChQuote THEN <<ChBackslash, ChQuote>> ELSE <<c>>

\* the switch of valueToQuotedString on one character     (lines 123 - 163)
EscapeChar(c) ==
  CASE c = ChQuote -> <<ChBackslash, ChQuote>>
    [] c = ChBackslash -> <<ChBackslash, ChBackslash>>
    [] c = ChBS -> <<ChBackslash, ChLowerB>>
    [] c = ChFF -> <<ChBackslash, ChLowerF>>
    [] c = ChLF -> <<ChBackslash, ChLowerN>>
    [] c = ChCR -> <<ChBackslash, ChLowerR>>
    [] c = ChTab -> <<ChBackslash, ChLowerT>>
    [] OTHER ->
         IF IsControlCharacter(c)
           THEN <<ChBackslash, ChLowerU, Ch0, Ch0,
                  HexDigit(c \div 16), HexDigit(c % 16)>>
           ELSE <<c>>

RECURSIVE EscapeAll(_)
EscapeAll(value) ==
  IF value = <<>> THEN <<>> ELSE EscapeChar(Head(value)) \o EscapeAll(Tail(value))

\* containsControlCharacter
ContainsControlCharacter(str) ==
  \E i \in 1..Len(str) : IsControlCharacter(str[i])

\* strpbrk(value, "\"\\\b\f\n\r\t") == NULL
NothingToEscape(value) ==
  \A i \in 1..Len(value) :
    value[i] \notin {ChQuote, ChBackslash, ChBS, ChFF, ChLF, ChCR, ChTab}

\* the bytes of a const char* : what precedes the first NUL
RECURSIVE CStr(_)
CStr(text) ==
  IF text = <<>> THEN <<>>
  ELSE IF Head(text) = 0 THEN <<>>
  ELSE <<Head(text)>> \o CStr(Tail(text))

\* valueToQuotedString of the NUL-terminated string value
ValueToQuotedString(value) ==
  IF NothingToEscape(value) /\ ~ContainsControlCharacter(value)
    THEN <<ChQuote>> \o value \o <<ChQuote>>
    ELSE <<ChQuote>> \o EscapeAll(value) \o <<ChQuote>>

-----------------------------------------------------------------------------
(* Values.  A Value of the tree is a node: its parent (0 for root, -1 once  *)
(* its parent's payload was swapped away), its key, its payload (type and   *)
(* val, a sequence of integers), its offsets and its comment slots.         *)

\* Value() : a null Value
NullNode(parent, key) ==
  [parent |-> parent, key |-> key, type |-> "null", val |-> <<>>,
   start |-> 0, limit |-> 0, before |-> <<>>, afterSame |-> <<>>, after |-> <<>>]

\* Value(x).swapPayload(v) : v gets the payload, and loses the children it had
SwapPayload(ns, n, type, val) ==
  [i \in 1..Len(ns) |->
     IF i = n THEN [ns[i] EXCEPT !.type = type, !.val = val]
     ELSE IF ns[i].parent = n THEN [ns[i] EXCEPT !.parent = 0 - 1]
     ELSE ns[i]]

\* the member of n named key, or 0
ChildByKey(ns, n, key) ==
  IF \E i \in 1..Len(ns) : ns[i].parent = n /\ ns[i].key = key
    THEN CHOOSE i \in 1..Len(ns) : ns[i].parent = n /\ ns[i].key = key
    ELSE 0

\* Value::asString of a number (a numeric member name)
AsString(type, val) ==
  CASE type = "int" -> ValueToStringInt(val[1])
    [] type = "uint" -> ValueToStringUInt(val[1])
    [] OTHER -> ValueToStringDouble(val)

\* Features::all
FeaturesAll ==
  [allowComments |-> TRUE, strictRoot |-> FALSE,
   allowDroppedNullPlaceholders |-> TRUE, allowNumericKeys |-> TRUE]

\* Features::strictMode
StrictMode ==
  [allowComments |-> FALSE, strictRoot |-> TRUE,
   allowDroppedNullPlaceholders |-> FALSE, allowNumericKeys |-> FALSE]

-----------------------------------------------------------------------------
(* Reader::skipCommentTokens.                                               *)

\* containsNewLine
ContainsNewLine(text) == \E i \in 1..Len(text) : text[i] = ChLF \/ text[i] = ChCR

\* normalizeEOL
RECURSIVE NormalizeEOL(_)
NormalizeEOL(text) ==
  IF text = <<>> THEN <<>>
  ELSE IF Head(text) = ChCR
    THEN IF Len(text) >= 2 /\ text[2] = ChLF
           THEN <<ChLF>> \o NormalizeEOL(Tail(Tail(text)))
           ELSE <<ChLF>> \o NormalizeEOL(Tail(text))
  ELSE <<Head(text)>> \o NormalizeEOL(Tail(text))

\* lines 191 - 195
Inline(comments, text) ==
  CStr((IF comments # <<>> THEN Append(comments, ChSpace) ELSE comments) \o text)

\* lines 197 - 203
Queue(queued, text) ==
  (IF queued # <<>> THEN Append(queued, ChLF) ELSE queued) \o NormalizeEOL(text)

Skipped(found, queued, rt, ns) ==
  [found |-> found, queued |-> queued, current |-> rt.current,
   token |-> rt.token, nodes |-> ns]

\* The do-while loop (lines 183 - 206) : SkipLoop is one iteration from
\* current_ = p, SkipToken what follows readToken, SkipComment what follows
\* "found = true", SkipNext the loop's test.
RECURSIVE SkipLoop(_, _, _, _, _, _)

SkipNext(queued, lastValue, ns, coll, rt) ==
  IF features.allowComments
    THEN SkipLoop(queued, lastValue, rt.current, ns, TRUE, coll)
    ELSE Skipped(TRUE, queued, rt, ns)

\* a gatherer that queues every comment for the next value
SkipCommentQueued(queued, lastValue, ns, coll, rt, text) ==
  IF ~coll THEN SkipNext(queued, lastValue, ns, coll, rt)
  ELSE SkipNext(Queue(queued, text), lastValue, ns, coll, rt)

SkipComment(queued, lastValue, ns, coll, rt, text) ==
  IF ~coll THEN SkipNext(queued, lastValue, ns, coll, rt)
  ELSE IF lastValue # 0 /\ ~ContainsNewLine(text)
    THEN SkipNext(queued, lastValue,
                  [ns EXCEPT ![lastValue].afterSame = Inline(@, text)], coll, rt)
  ELSE SkipNext(Queue(queued, text), lastValue, ns, coll, rt)

SkipToken(queued, lastValue, ns, found, coll, rt) ==
  IF rt.token.type # "Comment" THEN Skipped(found, queued, rt, ns)
  ELSE SkipComment(queued, IF rt.linebreak THEN 0 ELSE lastValue, ns, coll, rt,
                   DocText(rt.token.start, rt.token.end))

SkipLoop(queued, lastValue, p, ns, found, coll) ==
  SkipToken(queued, lastValue, ns, found, coll, ReadToken(p))

\* skipCommentTokens(queued, lastValue) called with current_ = p on tree ns
SkipCommentTokens(queued, lastValue, p, ns, coll) ==
  IF lastValue # 0 /\ queued # <<>>
    THEN SkipLoop(<<>>, 0, p, [ns EXCEPT ![lastValue].after = CStr(queued)],
                  FALSE, coll)
    ELSE SkipLoop(queued, lastValue, p, ns, FALSE, coll)

-----------------------------------------------------------------------------
(* The reader as a state machine.  pc is "new" for a constructed Reader,    *)
(* "readValue" when readValue is about to run on cur, "arrayLoop" and       *)
(* "objectLoop" at the head of the do-while of readArray and readObject,    *)
(* "arrayClose" and "objectClose" after it, "return" when readValue has     *)
(* returned ret to its caller, "done" when parse has returned result, and   *)
(* "idle" between two calls after that.  "write" is a FastWriter about to   *)
(* produce the document.                                                    *)

Frame(fn, n) ==
  [fn |-> fn, node |-> n, index |-> 0, lastValue |-> 0, queued |-> <<>>,
   comment |-> FALSE]

Top == stack[Len(stack)]

Pop == SubSeq(stack, 1, Len(stack) - 1)

SetTop(f) == [stack EXCEPT ![Len(stack)] = f]

\* Token::asString
TokenText(tok) == DocText(tok.start, tok.end)

\* Reader::good
Good == errors = <<>>

\* value.setComment(queuedComments.c_str(), commentBefore) unless empty
SetBefore(ns, n, queued) ==
  IF queued # <<>> THEN [ns EXCEPT ![n].before = CStr(queued)] ELSE ns

\* root.setComment(queuedComments.c_str(), commentAfter) unless empty
SetAfter(ns, n, queued) ==
  IF queued # <<>> THEN [ns EXCEPT ![n].after = CStr(queued)] ELSE ns

\* a parse that never tests the root's token
StrictRootIgnored(tok) == FALSE

\* lines 121 - 122
StrictRootFails(tok) ==
  features.strictRoot /\ tok.type # "ArrayBegin" /\ tok.type # "ObjectBegin"

StrictRootMessage ==
  Msg("A valid JSON document must be either an array or an object value.")

\* lines 106 - 107
CollectComments == IF ~features.allowComments THEN FALSE ELSE collectArg

\* Begin without "errors_.clear()" : the errors of earlier calls are kept
BeginKeepingErrors(coll, sk) ==
  /\ collect' = coll
  /\ current' = sk.current
  /\ token' = sk.token
  /\ nodes' = SetBefore(sk.nodes, 1, sk.queued)
  /\ stack' = <<>>
  /\ cur' = 1
  /\ ret' = TRUE
  /\ errors' = IF features.strictRoot /\ sk.token.type # "ArrayBegin"
                                      /\ sk.token.type # "ObjectBegin"
                 THEN Append(errors,
                        [token |-> sk.token,
                         message |-> [text |-> "A valid JSON document must be either an array or an object value.",
                                      arg |-> <<>>],
                         extra |-> 0 - 1])
                 ELSE errors
  /\ result' = FALSE
  /\ pc' = IF features.strictRoot /\ sk.token.type # "ArrayBegin"
                                  /\ sk.token.type # "ObjectBegin"
             THEN "done" ELSE "readValue"

\* lines 110 - 127, sk being what skipCommentTokens(queuedComments) did
Begin(coll, sk) ==
  /\ collect' = coll
  /\ current' = sk.current
  /\ token' = sk.token
  /\ nodes' = SetBefore(sk.nodes, 1, sk.queued)
  /\ stack' = <<>>
  /\ cur' = 1
  /\ ret' = TRUE
  /\ errors' = IF StrictRootFails(sk.token)
                 THEN AddError(<<>>, sk.token, StrictRootMessage, NoExtra)
                 ELSE <<>>
  /\ result' = FALSE
  /\ pc' = IF StrictRootFails(sk.token) THEN "done" ELSE "readValue"

\* no call of pushError since parse was called
NoPush ==
  [calls |-> 0, start |-> 0, limit |-> 0, withExtra |-> FALSE,
   extraStart |-> 0, extraLimit |-> 0, before |-> <<>>, returned |-> FALSE]

\* no call of getFormattedErrorMessages since parse was called
NoLocation == [called |-> FALSE, positions |-> <<>>]

\* Reader::parse up to the call of readValue               (lines 106 - 127)
ParseBegin ==
  /\ pc \in {"new", "idle", "done"}
  /\ Begin(CollectComments,
           SkipCommentTokens(<<>>, 0, 0, <<rootIn>>, CollectComments))
  /\ pushed' = NoPush
  /\ located' = NoLocation
  /\ UNCHANGED <<doc, features, collectArg, rootIn, source>>

Outcome(ok, type, val, errs) ==
  [ok |-> ok, type |-> type, val |-> val, errors |-> errs]

\* case tokenNumber                                        (lines 147 - 149)
NumberOutcome(d) ==
  IF d.ok THEN Outcome(TRUE, d.type, d.val, errors)
  ELSE Outcome(FALSE, "", <<>>,
               AddError(errors, token, NotANumber(TokenText(token)), NoExtra))

\* case tokenString                                        (lines 150 - 152)
StringOutcome(d) ==
  IF d.ok THEN Outcome(TRUE, "string", d.decoded, errors)
  ELSE Outcome(FALSE, "", <<>>, AddError(errors, token, d.message, d.extra))

SyntaxErrorMessage == Msg("Syntax error: value, object or array expected.")

\* a switch whose case tokenArraySeparator is never guarded by the feature
ScalarOutcomeLenient(build) ==
  CASE token.type = "Number" -> NumberOutcome(DecodeNumber(TokenText(token), build))
    [] token.type = "String" -> StringOutcome(DecodeString(token))
    [] token.type = "True" -> Outcome(TRUE, "bool", <<1>>, errors)
    [] token.type = "False" -> Outcome(TRUE, "bool", <<0>>, errors)
    [] token.type = "ArraySeparator" -> Outcome(TRUE, "null", <<>>, errors)
    [] token.type = "Null" -> Outcome(TRUE, "null", <<>>, errors)
    [] OTHER -> Outcome(FALSE, "", <<>>,
                        AddError(errors, token, SyntaxErrorMessage, NoExtra))

\* the payload and the errors a scalar token gives readValue (lines 147 - 169)
ScalarOutcome(build) ==
  CASE token.type = "Number" -> NumberOutcome(DecodeNumber(TokenText(token), build))
    [] token.type = "String" -> StringOutcome(DecodeString(token))
    [] token.type = "True" -> Outcome(TRUE, "bool", <<1>>, errors)
    [] token.type = "False" -> Outcome(TRUE, "bool", <<0>>, errors)
    [] token.type = "ArraySeparator" ->
         IF features.allowDroppedNullPlaceholders
           THEN Outcome(TRUE, "null", <<>>, errors)
           ELSE Outcome(FALSE, "", <<>>,
                        AddError(errors, token, SyntaxErrorMessage, NoExtra))
    [] token.type = "Null" -> Outcome(TRUE, "null", <<>>, errors)
    [] OTHER -> Outcome(FALSE, "", <<>>,
                        AddError(errors, token, SyntaxErrorMessage, NoExtra))

\* ReadScalar without "currentValue.setOffsetLimit(token_.end_ - begin_)"
ReadScalarNoLimit(o) ==
  /\ nodes' = [(IF o.ok THEN SwapPayload(nodes, cur, o.type, o.val) ELSE nodes)
                 EXCEPT ![cur].start = token.start]
  /\ errors' = o.errors
  /\ ret' = o.ok
  /\ pc' = "return"
  /\ UNCHANGED stack

\* lines 139, 147 - 172 with the outcome o of the switch
ReadScalar(o) ==
  /\ nodes' = [(IF o.ok THEN SwapPayload(nodes, cur, o.type, o.val) ELSE nodes)
                 EXCEPT ![cur].start = token.start, ![cur].limit = token.end]
  /\ errors' = o.errors
  /\ ret' = o.ok
  /\ pc' = "return"
  /\ UNCHANGED stack

\* lines 139 - 146 : readObject or readArray is entered
Enter(fn) ==
  /\ nodes' = SwapPayload([nodes EXCEPT ![cur].start = token.start], cur, fn, <<>>)
  /\ stack' = Append(stack, Frame(fn, cur))
  /\ pc' = IF fn = "object" THEN "objectLoop" ELSE "arrayLoop"
  /\ UNCHANGED <<errors, ret>>

\* Reader::readValue : a scalar is read to the end, an object or an array
\* enters readObject or readArray                          (lines 137 - 173)
ReadValue ==
  /\ pc = "readValue"
  /\ IF token.type = "ObjectBegin" THEN Enter("object")
     ELSE IF token.type = "ArrayBegin" THEN Enter("array")
     ELSE \E build \in NegateBuilds :
            \E o \in {ScalarOutcome(build)} : ReadScalar(o)
  /\ UNCHANGED <<doc, features, collectArg, rootIn, collect, current, token,
                 cur, result, source, pushed, located>>

\* readArray or readObject returns ok to the readValue that called it, which
\* sets the offset limit and returns                       (lines 171 - 172)
Leave(ns, errs, tok, p, ok) ==
  /\ nodes' = [ns EXCEPT ![Top.node].limit = tok.end]
  /\ errors' = errs
  /\ token' = tok
  /\ current' = p
  /\ stack' = Pop
  /\ ret' = ok
  /\ pc' = "return"
  /\ UNCHANGED cur

\* lines 418 - 426 and 358 - 360, sk being what skipCommentTokens did
LoopEnds(f, sk) ==
  /\ (f.fn = "array" /\ sk.token.type = "ArrayEnd")
     \/ (f.fn = "object" /\ sk.token.type = "ObjectEnd")
  /\ f.lastValue = 0 \/ features.allowDroppedNullPlaceholders

\* the break of line 421 and of line 360
Break(f, sk) ==
  /\ nodes' = sk.nodes
  /\ current' = sk.current
  /\ token' = sk.token
  /\ stack' = SetTop([f EXCEPT !.queued = sk.queued, !.comment = sk.found])
  /\ pc' = IF f.fn = "array" THEN "arrayClose" ELSE "objectClose"
  /\ UNCHANGED <<errors, ret, cur>>

\* lines 422 - 427 : the element is created and readValue called on it
Element(f, sk, n) ==
  /\ nodes' = SetBefore(Append(sk.nodes, NullNode(f.node, <<f.index>>)), n,
                        sk.queued)
  /\ current' = sk.current
  /\ token' = sk.token
  /\ stack' = SetTop([f EXCEPT !.queued = <<>>, !.comment = sk.found,
                               !.index = f.index + 1, !.lastValue = n])
  /\ pc' = "readValue"
  /\ cur' = n
  /\ UNCHANGED <<errors, ret>>

ArrayHead(f, sk) ==
  IF LoopEnds(f, sk) THEN Break(f, sk) ELSE Element(f, sk, Len(sk.nodes) + 1)

\* the head of the loop of readArray                       (lines 417 - 427)
ArrayLoop ==
  /\ pc = "arrayLoop"
  /\ \E sk \in {SkipCommentTokens(Top.queued, Top.lastValue, current, nodes,
                                   collect)} :
       ArrayHead(Top, sk)
  /\ UNCHANGED <<doc, features, collectArg, rootIn, collect, result, source,
                 pushed, located>>

LoopPc(fn) == IF fn = "array" THEN "arrayLoop" ELSE "objectLoop"

ClosePc(fn) == IF fn = "array" THEN "arrayClose" ELSE "objectClose"

\* the loop goes on without a further token                (lines 431 - 433)
Again(f) ==
  /\ stack' = SetTop([f EXCEPT !.comment = FALSE])
  /\ pc' = LoopPc(f.fn)
  /\ UNCHANGED <<nodes, errors, token, current, ret, cur>>

\* skipCommentTokens(queuedComments, lastValue) did sk     (lines 431 - 433)
Skip(f, sk) ==
  /\ stack' = SetTop([f EXCEPT !.queued = sk.queued, !.comment = sk.found])
  /\ nodes' = sk.nodes
  /\ token' = sk.token
  /\ current' = sk.current
  /\ pc' = IF sk.token.type = "ArraySeparator" THEN LoopPc(f.fn) ELSE ClosePc(f.fn)
  /\ UNCHANGED <<errors, ret, cur>>

\* after readValue(value) in readArray and readObject      (lines 428 - 433)
AfterValue ==
  /\ pc = "return"
  /\ stack # <<>>
  /\ IF ~ret THEN Leave(nodes, errors, token, current, FALSE)
     ELSE IF token.type = "ArraySeparator" THEN Again(Top)
     ELSE \E sk \in {SkipCommentTokens(Top.queued, Top.lastValue, current, nodes,
                                        collect)} :
            Skip(Top, sk)
  /\ UNCHANGED <<doc, features, collectArg, rootIn, collect, result, source,
                 pushed, located>>

\* lines 440 - 443
AppendBefore(comment, queued) ==
  CStr((IF comment # <<>> THEN Append(comment, ChLF) ELSE comment) \o queued)

\* the comments left when the loop is over                 (lines 438 - 448)
TrailingComments(ns, f) ==
  IF ~f.comment THEN ns
  ELSE IF f.lastValue = 0
    THEN [ns EXCEPT ![f.node].before = AppendBefore(@, f.queued)]
  ELSE SetAfter(ns, f.lastValue, f.queued)

MissingInArray == Msg("Missing ',' or ']' in array declaration")

MissingInObject == Msg("Missing ',' or '}' in object declaration")

\* the end of readArray and of readObject                  (lines 434 - 449)
Close ==
  /\ pc \in {"arrayClose", "objectClose"}
  /\ IF pc = "arrayClose" /\ token.type # "ArrayEnd"
       THEN Leave(nodes, AddError(errors, token, MissingInArray, NoExtra),
                  token, current, FALSE)
     ELSE IF pc = "objectClose" /\ token.type # "ObjectEnd"
       THEN Leave(nodes, AddError(errors, token, MissingInObject, NoExtra),
                  token, current, FALSE)
     ELSE Leave(TrailingComments(nodes, Top), errors, token, current, TRUE)
  /\ UNCHANGED <<doc, features, collectArg, rootIn, collect, result, source,
                 pushed, located>>

MemberNamed(ok, name, msg, extra) ==
  [ok |-> ok, name |-> name, message |-> msg, extra |-> extra]

\* lines 361 - 363
StringName(d) == MemberNamed(d.ok, d.decoded, d.message, d.extra)

\* lines 364 - 368
NumberName(text, d) ==
  IF d.ok THEN MemberNamed(TRUE, AsString(d.type, d.val), Msg(""), NoExtra)
  ELSE MemberNamed(FALSE, <<>>, NotANumber(text), NoExtra)

\* the member name readObject decodes from the token tok   (lines 361 - 372)
MemberName(tok, build) ==
  IF tok.type = "String" THEN StringName(DecodeString(tok))
  ELSE IF tok.type = "Number" /\ features.allowNumericKeys
    THEN NumberName(TokenText(tok), DecodeNumber(TokenText(tok), build))
  ELSE MemberNamed(FALSE, <<>>, Msg("Missing '}' or object member name"), NoExtra)

\* lines 379 - 385 : readValue is called on the member n of the tree ns
Member(f, found, sk, ns, n) ==
  /\ nodes' = SetBefore(ns, n, sk.queued)
  /\ current' = sk.current
  /\ token' = sk.token
  /\ stack' = SetTop([f EXCEPT !.queued = <<>>, !.comment = found,
                               !.lastValue = n])
  /\ pc' = "readValue"
  /\ cur' = n
  /\ UNCHANGED <<errors, ret>>

\* Value& value = currentValue[name], old being the member of that name
Lookup(f, found, name, sk, old) ==
  IF old # 0 THEN Member(f, found, sk, sk.nodes, old)
  ELSE Member(f, found, sk, Append(sk.nodes, NullNode(f.node, name)),
              Len(sk.nodes) + 1)

\* lines 373 - 377, sk being what the skipCommentTokens of line 373 did
Colon(f, found, name, sk) ==
  IF sk.token.type # "MemberSeparator"
    THEN Leave(sk.nodes,
               AddError(errors, sk.token,
                        Msg("Missing ':' after object member name"), NoExtra),
               sk.token, sk.current, FALSE)
    ELSE \E value \in {SkipCommentTokens(sk.queued, 0, sk.current, sk.nodes,
                                          collect)} :
           Lookup(f, found, name, value, ChildByKey(sk.nodes, f.node, name))

\* lines 361 - 373, m being the member name
Named(f, sk, m) ==
  IF ~m.ok
    THEN Leave(sk.nodes, AddError(errors, sk.token, m.message, m.extra),
               sk.token, sk.current, FALSE)
    ELSE \E colon \in {SkipCommentTokens(sk.queued, 0, sk.current, sk.nodes,
                                          collect)} :
           Colon(f, sk.found, m.name, colon)

ObjectHead(f, build, sk) ==
  IF LoopEnds(f, sk) THEN Break(f, sk)
  ELSE \E m \in {MemberName(sk.token, build)} : Named(f, sk, m)

\* the head of the loop of readObject                      (lines 357 - 385)
ObjectLoop ==
  /\ pc = "objectLoop"
  /\ \E build \in NegateBuilds :
       \E sk \in {SkipCommentTokens(Top.queued, Top.lastValue, current, nodes,
                                     collect)} :
         ObjectHead(Top, build, sk)
  /\ UNCHANGED <<doc, features, collectArg, rootIn, collect, result, source,
                 pushed, located>>

\* End with the test that the document is over
EndAtEndOfStream(sk) ==
  /\ nodes' = SetAfter(sk.nodes, 1, sk.queued)
  /\ current' = sk.current
  /\ token' = sk.token
  /\ result' = (ret /\ sk.token.type = "EndOfStream")
  /\ pc' = "done"

\* lines 129 - 134, sk being what skipCommentTokens(queuedComments, &root) did
End(sk) ==
  /\ nodes' = SetAfter(sk.nodes, 1, sk.queued)
  /\ current' = sk.current
  /\ token' = sk.token
  /\ result' = ret
  /\ pc' = "done"

\* Reader::parse once readValue(root) has returned         (lines 128 - 134)
ParseEnd ==
  /\ pc = "return"
  /\ stack = <<>>
  /\ \E sk \in {SkipCommentTokens(<<>>, 1, current, nodes, collect)} : End(sk)
  /\ UNCHANGED <<doc, features, collectArg, rootIn, collect, errors, stack, cur,
                 ret, source, pushed, located>>

\* the calls of pushError between two calls of parse
MaxPushes == 1

\* the token pushError makes of value                (lines 704 - 706, 722 - 724)
PushedToken(value, withExtra) ==
  Token("Error", value.start,
        IF withExtra THEN value.limit ELSE DocLen + value.limit)

\* the guard of pushError                            (lines 700 - 702, 717 - 720)
PushRejected(value, extra, withExtra) ==
  \/ value.start > DocLen
  \/ value.limit > DocLen
  \/ withExtra /\ extra.limit > DocLen

Pushed(value, extra, withExtra) ==
  IF PushRejected(value, extra, withExtra) THEN errors
  ELSE Append(errors,
              ErrorInfo(PushedToken(value, withExtra), Msg("pushed"),
                        IF withExtra THEN extra.start ELSE NoExtra))

\* the call pushError(value, message [, extra]) on the errors errs, and what
\* it returned
PushCall(value, extra, withExtra, errs) ==
  [calls |-> pushed.calls + 1, start |-> value.start, limit |-> value.limit,
   withExtra |-> withExtra, extraStart |-> extra.start,
   extraLimit |-> extra.limit, before |-> errs,
   returned |-> ~PushRejected(value, extra, withExtra)]

\* Reader::pushError(value, message) and pushError(value, message, extra) on
\* Values of the tree, between two calls of parse          (lines 698 - 731)
PushError ==
  /\ pc \in {"done", "idle"}
  /\ pushed.calls < MaxPushes
  /\ \E v \in 1..Len(nodes), e \in 1..Len(nodes), withExtra \in BOOLEAN :
       /\ withExtra \/ e = 1
       /\ errors' = Pushed(nodes[v], nodes[e], withExtra)
       /\ pushed' = PushCall(nodes[v], nodes[e], withExtra, errors)
  /\ pc' = "idle"
  /\ UNCHANGED <<doc, features, collectArg, rootIn, collect, current, token, nodes,
                 stack, cur, ret, result, source, located>>

\* one error of Reader::getStructuredErrors               (lines 688 - 693)
StructuredError(error) ==
  [offset_start |-> error.token.start, offset_limit |-> error.token.end,
   message |-> error.message]

\* Reader::getStructuredErrors
GetStructuredErrors == [i \in 1..Len(errors) |-> StructuredError(errors[i])]

\* the bytes a read of *end_ can find : end_ is outside the range handed to
\* parse(beginDoc, endDoc, ...), what lies there is not the Reader's
BytesAtEnd == {0, ChLF}

\* *current in getLocationLineAndColumn                    (line 632)
Deref(p, atEnd) == IF p < DocLen THEN At(p) ELSE atEnd

\* column = location - lastLineStart + 1; ++line          (lines 642 - 643)
Position(location, lastLineStart, line) ==
  [location |-> location, line |-> line + 1,
   column |-> (location - lastLineStart) + 1]

\* the loop of getLocationLineAndColumn                    (lines 629 - 640)
RECURSIVE LocationLoop(_, _, _, _, _)
LocationLoop(location, p, lastLineStart, line, atEnd) ==
  IF ~(p < location /\ p # DocLen) THEN Position(location, lastLineStart, line)
  ELSE IF At(p) = ChCR
    THEN (IF Deref(p + 1, atEnd) = ChLF
            THEN LocationLoop(location, p + 2, p + 2, line + 1, atEnd)
            ELSE LocationLoop(location, p + 1, p + 1, line + 1, atEnd))
  ELSE IF At(p) = ChLF
    THEN LocationLoop(location, p + 1, p + 1, line + 1, atEnd)
  ELSE LocationLoop(location, p + 1, lastLineStart, line, atEnd)

\* Reader::getLocationLineAndColumn(location, line, column)
GetLocationLineAndColumn(location, atEnd) ==
  LocationLoop(location, 0, 0, 0, atEnd)

\* the positions in the message of one error : that of its token and, when
\* it has one, that of its extra location                 (lines 673 - 678)
ErrorPositions(error, atEnd) ==
  <<GetLocationLineAndColumn(error.token.start, atEnd)>>
  \o (IF error.extra # NoExtra
        THEN <<GetLocationLineAndColumn(error.extra, atEnd)>>
        ELSE <<>>)

RECURSIVE FormattedPositions(_, _)
FormattedPositions(i, atEnd) ==
  IF i > Len(errors) THEN <<>>
  ELSE ErrorPositions(errors[i], atEnd) \o FormattedPositions(i + 1, atEnd)

\* Reader::getFormattedErrorMessages : the message is kept as the lines and
\* columns it prints, in order                             (lines 667 - 681)
GetFormattedErrorMessages ==
  /\ pc \in {"done", "idle"}
  /\ \E atEnd \in BytesAtEnd :
       located' = [called |-> TRUE, positions |-> FormattedPositions(1, atEnd)]
  /\ UNCHANGED <<doc, features, collectArg, rootIn, collect, current, token,
                 errors, nodes, stack, pc, cur, ret, result, source, pushed>>

-----------------------------------------------------------------------------
(* FastWriter.  The Value handed to write is a record of its type, its      *)
(* payload val and its children kids, each a name and a Value; the members  *)
(* of an object are kept in the order of getMemberNames.  Its comments are   *)
(* the texts before, afterSame and after, empty when it has none.           *)

V(type, val) ==
  [type |-> type, val |-> val, kids |-> <<>>,
   before |-> <<>>, afterSame |-> <<>>, after |-> <<>>]

Kid(name, value) == [name |-> name, value |-> value]

Compound(type, kids) ==
  [type |-> type, val |-> <<>>, kids |-> kids,
   before |-> <<>>, afterSame |-> <<>>, after |-> <<>>]

NoSource == V("none", <<>>)

\* FastWriter::writeValue, with the options FastWriter() sets (lines 194 - 240)
RECURSIVE WriteValue(_)
RECURSIVE WriteKids(_, _, _)
WriteKids(kids, i, isObject) ==
  IF i > Len(kids) THEN <<>>
  ELSE (IF i > 1 THEN <<ChComma>> ELSE <<>>)
       \o (IF isObject THEN ValueToQuotedString(CStr(kids[i].name)) \o <<ChColon>>
           ELSE <<>>)
       \o WriteValue(kids[i].value)
       \o WriteKids(kids, i + 1, isObject)

WriteValue(value) ==
  CASE value.type = "null" -> TextNull
    [] value.type = "int" -> ValueToStringInt(value.val[1])
    [] value.type = "uint" -> ValueToStringUInt(value.val[1])
    [] value.type = "real" -> ValueToStringDouble(value.val)
    [] value.type = "string" -> ValueToQuotedString(CStr(value.val))
    [] value.type = "bool" -> ValueToStringBool(value.val[1] = 1)
    [] value.type = "array" ->
         <<ChLBracket>> \o WriteKids(value.kids, 1, FALSE) \o <<ChRBracket>>
    [] value.type = "object" ->
         <<ChLBrace>> \o WriteKids(value.kids, 1, TRUE) \o <<ChRBrace>>

\* FastWriter::write                                       (lines 186 - 192)
FastWriterWrite(root) == WriteValue(root) \o <<ChLF>>

\* the document FastWriter::write returns is handed to a Reader
FastWrite ==
  /\ pc = "write"
  /\ doc' = FastWriterWrite(source)
  /\ pc' = "new"
  /\ UNCHANGED <<features, collectArg, rootIn, collect, current, token, errors,
                 nodes, stack, cur, ret, result, source, pushed, located>>

-----------------------------------------------------------------------------
(* StyledWriter.  The writer is the record of document_, indentString_,     *)
(* childValues_ and addChildValues_; every method takes it and gives the    *)
(* writer it leaves.                                                        *)

RightMargin == 74

IndentSize == 3

\* indentation_(indentSize, ' ')                           (line 246)
Indentation == [i \in 1..IndentSize |-> ChSpace]

\* document_.resize(0); addChildValues_ = false; indentString_.resize(0)
NewStyled ==
  [document |-> <<>>, indentString |-> <<>>, childValues |-> <<>>,
   addChildValues |-> FALSE]

\* StyledWriter::write(const char*) : document_ += value
StyledPut(w, text) == [w EXCEPT !.document = @ \o text]

\* StyledWriterMethods::writeIndent                        (lines 248 - 253)
WriteIndent(w) ==
  IF w.indentString = <<>> THEN [w EXCEPT !.indentString = <<ChLF>>]
  ELSE StyledPut(w, w.indentString)

\* StyledWriterMethods::indent                             (line 255)
Indent(w) == [w EXCEPT !.indentString = @ \o Indentation]

\* StyledWriterMethods::unindent                           (lines 257 - 260)
Unindent(w) ==
  [w EXCEPT !.indentString = SubSeq(@, 1, Len(@) - Len(Indentation))]

\* StyledWriterMethods::pushValue                          (lines 403 - 408)
PushValue(w, text) ==
  IF w.addChildValues THEN [w EXCEPT !.childValues = Append(@, text)]
  ELSE StyledPut(w, text)

\* the byte at offset q of a C string, its terminator included
CharAt(text, q) == IF q \in 1..Len(text) THEN text[q] ELSE 0

\* strchr(q, '/') : the offset of the first '/' from q on, 0 when none
RECURSIVE StrChrSlash(_, _)
StrChrSlash(text, q) ==
  IF CharAt(text, q) = 0 THEN 0
  ELSE IF text[q] = ChSlash THEN q
  ELSE StrChrSlash(text, q + 1)

\* do c = *++q; while (c != '\0' && c != '\r' && c != '\n')  (lines 432 - 434)
RECURSIVE SkipToLineEnd(_, _)
SkipToLineEnd(text, q) ==
  IF CharAt(text, q + 1) \in {0, ChCR, ChLF} THEN q + 1
  ELSE SkipToLineEnd(text, q + 1)

\* the end of the line on which a block comment is closed  (lines 430 - 435)
RECURSIVE SkipBlockLines(_, _)
SkipBlockLines(text, q) ==
  IF /\ CharAt(text, SkipToLineEnd(text, q)) # 0
     /\ \/ CharAt(text, SkipToLineEnd(text, q) - 1) # ChSlash
        \/ CharAt(text, SkipToLineEnd(text, q) - 2) # ChStar
    THEN SkipBlockLines(text, SkipToLineEnd(text, q))
    ELSE SkipToLineEnd(text, q)

\* the switch on the byte after the '/' at p : where q is left  (lines 427 - 436)
CommentPieceEnd(text, p) ==
  IF CharAt(text, p + 1) = ChStar THEN SkipBlockLines(text, p + 1)
  ELSE IF CharAt(text, p + 1) = ChSlash THEN SkipToLineEnd(text, p + 1)
  ELSE p + 1

\* the loop of StyledWriterMethods::writeComment           (lines 424 - 439)
RECURSIVE WriteCommentFrom(_, _, _)
WriteCommentFrom(w, text, q) ==
  IF StrChrSlash(text, q) = 0 THEN w
  ELSE WriteCommentFrom(
         StyledPut(WriteIndent(w),
                   SubSeq(text, StrChrSlash(text, q),
                          CommentPieceEnd(text, StrChrSlash(text, q)) - 1)),
         text, CommentPieceEnd(text, StrChrSlash(text, q)))

\* StyledWriterMethods::writeComment                       (lines 422 - 440)
WriteComment(w, text) == WriteCommentFrom(w, text, 1)

\* StyledWriterMethods::writeCommentBeforeValue            (lines 410 - 412)
WriteCommentBeforeValue(w, value) == WriteComment(w, value.before)

\* StyledWriterMethods::writeCommentAfterValue             (lines 414 - 420)
WriteCommentAfterValue(w, value) ==
  WriteComment(IF value.afterSame # <<>>
                 THEN StyledPut(StyledPut(w, <<ChSpace>>), value.afterSame)
                 ELSE w,
               value.after)

\* StyledWriterMethods::hasCommentForValue                 (lines 442 - 446)
HasCommentForValue(value) ==
  value.before # <<>> \/ value.afterSame # <<>> \/ value.after # <<>>

\* the text writeValue pushes for a Value that is no array and no object
\*                                                         (lines 280 - 297)
ScalarText(value) ==
  CASE value.type = "null" -> TextNull
    [] value.type = "int" -> ValueToStringInt(value.val[1])
    [] value.type = "uint" -> ValueToStringUInt(value.val[1])
    [] value.type = "real" -> ValueToStringDouble(value.val)
    [] value.type = "string" -> ValueToQuotedString(CStr(value.val))
    [] value.type = "bool" -> ValueToStringBool(value.val[1] = 1)

\* (childValue.isArray() || childValue.isObject()) && childValue.size() > 0
\* || hasCommentForValue(childValue)                       (lines 384 - 386)
ChildIsMultiLine(childValue) ==
  \/ childValue.type \in {"array", "object"} /\ Len(childValue.kids) > 0
  \/ HasCommentForValue(childValue)

\* the sum of childValues_[index].length()                 (line 395)
RECURSIVE ChildLengths(_, _)
ChildLengths(childValues, index) ==
  IF index > Len(childValues) THEN 0
  ELSE Len(childValues[index]) + ChildLengths(childValues, index + 1)

\* lineLength, once every child is in childValues_         (lines 392 - 396)
LineLength(childValues, size) ==
  (4 + (size - 1) * 2) + ChildLengths(childValues, 1)

\* what isMultineArray leaves : the writer and the value it returns
Layout(w, isMultiLine) == [w |-> w, isMultiLine |-> isMultiLine]

RECURSIVE StyledWriteValue(_, _)
RECURSIVE WriteMembers(_, _, _)
RECURSIVE WriteElements(_, _, _, _)
RECURSIVE PushChildValues(_, _, _)

\* for (index ...) writeValue(value[index]), addChildValues_ being set
\*                                                         (lines 393 - 396)
PushChildValues(w, kids, index) ==
  IF w.addChildValues /\ index <= Len(kids)
    THEN PushChildValues(StyledWriteValue(w, kids[index].value), kids, index + 1)
    ELSE w

\* the end of isMultineArray on the writer that holds the children
\*                                                         (lines 397 - 400)
LineLayout(w, size) ==
  Layout([w EXCEPT !.addChildValues = FALSE],
         LineLength(w.childValues, size) >= RightMargin)

\* StyledWriterMethods::isMultineArray                     (lines 377 - 401)
IsMultineArray(w, value) ==
  IF \/ Len(value.kids) * 3 >= RightMargin
     \/ \E index \in 1..Len(value.kids) : ChildIsMultiLine(value.kids[index].value)
    THEN Layout([w EXCEPT !.childValues = <<>>], TRUE)
    ELSE LineLayout(PushChildValues([w EXCEPT !.childValues = <<>>,
                                              !.addChildValues = TRUE],
                                    value.kids, 1),
                    Len(value.kids))

\* one turn of the loop of a multi-line array, up to the child
\*                                                         (lines 345 - 352)
ElementWritten(w, childValue, hasChildValue, index) ==
  IF hasChildValue THEN StyledPut(w, w.childValues[index])
  ELSE StyledWriteValue(w, childValue)

\* the loop of a multi-line array, entered after indent() with an
\* indentString_ that is not empty                         (lines 344 - 359)
WriteElements(w, kids, hasChildValue, index) ==
  IF w.indentString # <<>> /\ index < Len(kids)
    THEN WriteElements(
           WriteCommentAfterValue(
             StyledPut(
               ElementWritten(WriteIndent(WriteCommentBeforeValue(w, kids[index].value)),
                              kids[index].value, hasChildValue, index),
               <<ChComma>>),
             kids[index].value),
           kids, hasChildValue, index + 1)
    ELSE WriteCommentAfterValue(
           ElementWritten(WriteIndent(WriteCommentBeforeValue(w, kids[index].value)),
                          kids[index].value, hasChildValue, index),
           kids[index].value)

\* the loop of an array written on a single line           (lines 367 - 371)
RECURSIVE WriteOnLine(_, _)
WriteOnLine(w, index) ==
  IF index > Len(w.childValues) THEN w
  ELSE WriteOnLine(
         StyledPut(IF index > 1 THEN StyledPut(w, <<ChComma, ChSpace>>) ELSE w,
                   w.childValues[index]),
         index + 1)

\* writeArrayValue once isMultineArray has returned        (lines 339 - 373)
ArrayLaidOut(layout, value) ==
  IF layout.isMultiLine
    THEN StyledPut(
           WriteIndent(Unindent(
             WriteElements(Indent(StyledPut(layout.w, <<ChLBracket>>)), value.kids,
                           layout.w.childValues # <<>>, 1))),
           <<ChRBracket>>)
    ELSE StyledPut(WriteOnLine(StyledPut(layout.w, <<ChLBracket, ChSpace>>), 1),
                   <<ChSpace, ChRBracket>>)

\* StyledWriterMethods::writeArrayValue                    (lines 333 - 375)
WriteArrayValue(w, value) ==
  IF Len(value.kids) = 0 THEN PushValue(w, <<ChLBracket, ChRBracket>>)
  ELSE ArrayLaidOut(IsMultineArray(w, value), value)

\* one turn of the loop of an object, up to the child      (lines 310 - 317)
MemberWritten(w, kid) ==
  StyledWriteValue(
    StyledPut(StyledPut(WriteIndent(WriteCommentBeforeValue(w, kid.value)),
                        ValueToQuotedString(CStr(kid.name))),
              <<ChSpace, ChColon, ChSpace>>),
    kid.value)

\* the loop of an object                                   (lines 309 - 324)
WriteMembers(w, kids, index) ==
  IF index = Len(kids)
    THEN WriteCommentAfterValue(MemberWritten(w, kids[index]), kids[index].value)
    ELSE WriteMembers(
           WriteCommentAfterValue(StyledPut(MemberWritten(w, kids[index]), <<ChComma>>),
                                  kids[index].value),
           kids, index + 1)

\* StyledWriterMethods::writeValue                         (lines 278 - 331)
StyledWriteValue(w, value) ==
  IF value.type = "array" THEN WriteArrayValue(w, value)
  ELSE IF value.type = "object"
    THEN (IF Len(value.kids) = 0 THEN PushValue(w, <<ChLBrace, ChRBrace>>)
          ELSE StyledPut(
                 WriteIndent(Unindent(
                   WriteMembers(Indent(StyledPut(w, <<ChLBrace>>)), value.kids, 1))),
                 <<ChRBrace>>))
  ELSE PushValue(w, ScalarText(value))

\* StyledWriter::write                                     (lines 266 - 276)
StyledWriterWrite(root) ==
  WriteIndent(
    WriteCommentAfterValue(
      StyledWriteValue(WriteIndent(WriteCommentBeforeValue(NewStyled, root)), root),
      root)).document

\* the caller keeps the document StyledWriter::write returns
StyledWrite ==
  /\ pc \in {"write", "style"}
  /\ doc' = StyledWriterWrite(source)
  /\ pc' = "styled"
  /\ UNCHANGED <<features, collectArg, rootIn, collect, current, token, errors,
                 nodes, stack, cur, ret, result, source, pushed, located>>

\* the steps of Reader::parse once it is called : parse runs them one after
\* the other until it returns                              (lines 102 - 135)
Parsing ==
  \/ ReadValue
  \/ ArrayLoop
  \/ ObjectLoop
  \/ AfterValue
  \/ Close
  \/ ParseEnd

Next ==
  \/ FastWrite
  \/ StyledWrite
  \/ ParseBegin
  \/ ReadValue
  \/ ArrayLoop
  \/ ObjectLoop
  \/ AfterValue
  \/ Close
  \/ ParseEnd
  \/ PushError
  \/ GetFormattedErrorMessages

-----------------------------------------------------------------------------
(* The inputs.  A document is a sequence of lexemes of a family, bounded in *)
(* length; a Reader is constructed with some Features.                      *)

RECURSIVE Flatten(_)
Flatten(w) == IF w = <<>> THEN <<>> ELSE Head(w) \o Flatten(Tail(w))

Words(lexemes, n) == UNION {[1..k -> lexemes] : k \in 0..n}

DocsOver(lexemes, n) == {Flatten(w) : w \in Words(lexemes, n)}

AllFeatures ==
  [allowComments : BOOLEAN, strictRoot : BOOLEAN,
   allowDroppedNullPlaceholders : BOOLEAN, allowNumericKeys : BOOLEAN]

\* a Value the caller has just constructed, and one that was used before
FreshRoot == NullNode(0, <<>>)

UsedRoot == [FreshRoot EXCEPT !.type = "int", !.val = <<7>>, !.start = 5,
                              !.limit = 9]

InitialToken == Token("EndOfStream", 0, 0)

\* a constructed Reader and the arguments of its calls of parse; p is "new",
\* or "write" or "style" when the document is still to be written from the
\* Value s
Constructed(d, f, c, r, s, p) ==
  /\ doc = d
  /\ features = f
  /\ collectArg = c
  /\ rootIn = r
  /\ collect = FALSE
  /\ current = 0
  /\ token = InitialToken
  /\ errors = <<>>
  /\ nodes = <<r>>
  /\ stack = <<>>
  /\ pc = p
  /\ cur = 1
  /\ ret = TRUE
  /\ result = FALSE
  /\ source = s
  /\ pushed = NoPush
  /\ located = NoLocation

Reading(d, f, c, r) == Constructed(d, f, c, r, NoSource, "new")

Writing(s, f) == Constructed(<<>>, f, TRUE, FreshRoot, s, "write")

\* the Value s is to be written by a StyledWriter only
Styling(s) == Constructed(<<>>, FeaturesAll, TRUE, FreshRoot, s, "style")

\* the lexemes
LexArrayBegin == <<ChLBracket>>

LexArrayEnd == <<ChRBracket>>

LexObjectBegin == <<ChLBrace>>

LexObjectEnd == <<ChRBrace>>

LexComma == <<ChComma>>

LexColon == <<ChColon>>

LexOne == <<49>>

LexTwo == <<50>>

\* "a"
LexString == <<ChQuote, ChLowerA, ChQuote>>

\* /*a*/, /*b*/ and /*x*/
LexCommentA == <<ChSlash, ChStar, 97, ChStar, ChSlash>>

LexCommentB == <<ChSlash, ChStar, 98, ChStar, ChSlash>>

LexCommentX == <<ChSlash, ChStar, 120, ChStar, ChSlash>>

\* x : no token starts with it
LexBad == <<120>>

LexLF == <<ChLF>>

LexSpace == <<ChSpace>>

\* FastWriter::write of the object whose member "a" is the array of 1 : every
\* step of the writer and of the reader is taken on it
SmokeSource ==
  Compound("object",
           <<Kid(<<ChLowerA>>, Compound("array", <<Kid(<<>>, V("int", <<1>>))>>))>>)

InitSmoke == Writing(SmokeSource, FeaturesAll)

\* any lexemes, any Features, a fresh or a used root
MaxGeneralLen == 3

GeneralLexemes ==
  {LexArrayBegin, LexArrayEnd, LexObjectBegin, LexObjectEnd, LexComma, LexColon,
   LexOne, LexString, LexCommentA, LexBad}

InitGeneral ==
  \E d \in DocsOver(GeneralLexemes, MaxGeneralLen), f \in AllFeatures :
    \E r \in (IF f.strictRoot THEN {FreshRoot, UsedRoot} ELSE {FreshRoot}) :
      Reading(d, f, TRUE, r)

\* objects : { some lexemes }, with and without numeric keys
MaxObjectLen == 5

ObjectLexemes == {LexString, LexColon, LexOne, LexComma, LexCommentA}

ObjectDocs ==
  {LexObjectBegin \o d \o LexObjectEnd : d \in DocsOver(ObjectLexemes, MaxObjectLen)}

InitObjects ==
  \E d \in ObjectDocs, k \in BOOLEAN :
    Reading(d, [FeaturesAll EXCEPT !.allowNumericKeys = k], TRUE, FreshRoot)

\* arrays of 1, possibly nested, with and without dropped null placeholders
MaxArrayLen == 6

ArrayLexemes == {LexArrayBegin, LexArrayEnd, LexComma, LexOne}

\* [1,,2]
DocDropped ==
  LexArrayBegin \o LexOne \o LexComma \o LexComma \o LexTwo \o LexArrayEnd

\* [1,]
DocTrailing == LexArrayBegin \o LexOne \o LexComma \o LexArrayEnd

ArrayDocs == DocsOver(ArrayLexemes, MaxArrayLen) \cup {DocDropped, DocTrailing}

InitArrays ==
  \E d \in ArrayDocs, a \in BOOLEAN :
    Reading(d, [FeaturesAll EXCEPT !.allowDroppedNullPlaceholders = a], TRUE,
            FreshRoot)

\* [1, /*x*/ 2]
DocCommentAfterComma ==
  LexArrayBegin \o LexOne \o LexComma \o LexSpace \o LexCommentX \o LexSpace
  \o LexTwo \o LexArrayEnd

\* the same with a line break after the separator
DocCommentOnNextLine ==
  LexArrayBegin \o LexOne \o LexComma \o LexLF \o LexCommentX \o LexSpace
  \o LexTwo \o LexArrayEnd

\* {"a":1 <LF> /*a*/,/*b*/}
DocObjectTrailing ==
  LexObjectBegin \o LexString \o LexColon \o LexOne \o LexLF \o LexCommentA
  \o LexComma \o LexCommentB \o LexObjectEnd

\* arrays with comments : [ some lexemes ], the comments being collected
MaxCommentLen == 5

CommentLexemes == {LexComma, LexOne, LexCommentA, LexCommentB, LexLF}

CommentDocs ==
  {LexArrayBegin \o d \o LexArrayEnd : d \in DocsOver(CommentLexemes, MaxCommentLen)}
  \cup {DocCommentAfterComma, DocCommentOnNextLine, DocObjectTrailing}

InitComments == \E d \in CommentDocs : Reading(d, FeaturesAll, TRUE, FreshRoot)

\* strings : " some escapes and characters "
MaxStringLen == 3

\* \uD834, a high surrogate
EscHigh == <<ChBackslash, ChLowerU, 68, 56, 51, 52>>

\* \uDD1E, a low surrogate
EscLow == <<ChBackslash, ChLowerU, 68, 68, 49, 69>>

\* A
EscLetter == <<ChBackslash, ChLowerU, 48, 48, 52, 49>>

\* \n
EscNewline == <<ChBackslash, ChLowerN>>

\* \u0000
EscZero == <<ChBackslash, ChLowerU, Ch0, Ch0, Ch0, Ch0>>

\* \u00e9 with lower case digits
EscLower == <<ChBackslash, ChLowerU, Ch0, Ch0, ChLowerE, Ch9>>

\* \u00, two digits short
EscShort == <<ChBackslash, ChLowerU, Ch0, Ch0>>

\* \u00G1, G being no hexadecimal digit
EscBadHex == <<ChBackslash, ChLowerU, Ch0, Ch0, ChUpperF + 1, Ch0 + 1>>

\* a backslash before a carriage return
EscCR == <<ChBackslash, ChCR>>

StringLexemes ==
  {EscHigh, EscLow, EscLetter, EscNewline, <<ChLowerA>>, EscZero, EscLower,
   EscShort, EscBadHex, EscCR, <<0>>, <<ChCR>>, <<ChLF>>}

StringDocs ==
  {<<ChQuote>> \o d \o <<ChQuote>> : d \in DocsOver(StringLexemes, MaxStringLen)}

InitStrings == \E d \in StringDocs : Reading(d, FeaturesAll, TRUE, FreshRoot)

\* numbers : an optional '-' and some digits
MaxDigits == 3

DigitStrings == DocsOver({<<c>> : c \in Ch0..Ch9}, MaxDigits) \ {<<>>}

NumberDocs == DigitStrings \cup {<<ChMinus>> \o d : d \in DigitStrings}

InitNumbers == \E d \in NumberDocs : Reading(d, FeaturesAll, TRUE, FreshRoot)

\* the Values handed to the compact writer.  The reals are doubles whose
\* decimal expansion is exact and short, the infinities and a NaN.
SourceReals ==
  {<<0, 0, 0, 0>>, <<0, 1, 0, 0>>, <<0, 0, 1, 0>>, <<0, 1, 3, 0>>, <<0, 0, 5, 0 - 1>>,
   <<0, 1, 25, 0 - 1>>, <<0, 0, 125, 0 - 3>>, <<0, 0, 48828125, 0 - 11>>,
   <<0, 0, 1, 2>>, <<0, 0, 1, 22>>, <<1, 0, 0, 0>>, <<1, 1, 0, 0>>, <<2, 0, 0, 0>>}

SourceNumbers ==
  {V("int", <<i>>) : i \in MinInt..MaxInt}
  \cup {V("uint", <<u>>) : u \in 0..MaxUInt}
  \cup {V("real", d) : d \in SourceReals}

\* the bytes of the strings : a letter, the characters valueToQuotedString
\* escapes, '/', the control characters 1 and 31, DEL and two bytes above 127
MaxSourceLen == 2

SourceBytes ==
  {ChLowerA, ChQuote, ChBackslash, ChSlash, ChBS, ChFF, ChLF, ChCR, ChTab, 1, 31,
   127, 195, 169}

SourceStrings == {V("string", d) : d \in DocsOver({<<c>> : c \in SourceBytes}, MaxSourceLen)}

SourceScalars ==
  {V("null", <<>>), V("bool", <<1>>), V("bool", <<0>>)} \cup SourceNumbers
  \cup SourceStrings

\* the scalars the arrays and the objects are made of
SourceItems ==
  {V("null", <<>>), V("bool", <<1>>), V("int", <<0 - 1>>), V("uint", <<MaxUInt>>),
   V("real", <<0, 0, 5, 0 - 1>>), V("real", <<2, 0, 0, 0>>),
   V("string", <<ChLowerA>>)}

SourceArrays ==
  {Compound("array", <<>>)}
  \cup {Compound("array", <<Kid(<<>>, a)>>) : a \in SourceItems}
  \cup {Compound("array", <<Kid(<<>>, a), Kid(<<>>, b)>>) :
          a \in SourceItems, b \in SourceItems}

\* the members are in the order of their names : "", "a", "b"
SourceObjects ==
  {Compound("object", <<>>)}
  \cup {Compound("object", <<Kid(k, a)>>) :
          k \in {<<>>, <<ChLowerA>>, <<ChLowerB>>}, a \in SourceItems}
  \cup {Compound("object", <<Kid(k[1], a), Kid(k[2], b)>>) :
          k \in {<<<<>>, <<ChLowerA>>>>, <<<<>>, <<ChLowerB>>>>,
                 <<<<ChLowerA>>, <<ChLowerB>>>>},
          a \in SourceItems, b \in SourceItems}

SourceNested ==
  {Compound("array", <<Kid(<<>>, c), Kid(<<>>, a)>>) :
     c \in {Compound("array", <<Kid(<<>>, a)>>) : a \in SourceItems}
           \cup {Compound("object", <<Kid(<<ChLowerA>>, a)>>) : a \in SourceItems},
     a \in {V("int", <<1>>)}}
  \cup {Compound("object", <<Kid(<<ChLowerA>>, c)>>) :
          c \in {Compound("array", <<Kid(<<>>, a)>>) : a \in SourceItems}
                \cup {Compound("object", <<Kid(<<ChLowerB>>, a)>>) : a \in SourceItems}}

SourceValues ==
  SourceScalars \cup SourceArrays \cup SourceObjects \cup SourceNested

InitWriter == \E v \in SourceValues : Writing(v, FeaturesAll)

\* runs of separators : [ and up to MaxSeparators times ',', any Features
MaxSeparators == 4

Separators(n) == [i \in 1..n |-> ChComma]

InitSeparators ==
  \E n \in 0..MaxSeparators, f \in AllFeatures :
    Reading(LexArrayBegin \o Separators(n), f, TRUE, FreshRoot)

\* a root value and what follows it : 1 2, {} x, [1]] and every root followed
\* by up to MaxTrailingLen lexemes, any Features
MaxTrailingLen == 2

\* 1 2
DocOneTwo == LexOne \o LexSpace \o LexTwo

\* {} x
DocObjectBad == LexObjectBegin \o LexObjectEnd \o LexSpace \o LexBad

\* [1]]
DocArrayEnd == LexArrayBegin \o LexOne \o LexArrayEnd \o LexArrayEnd

RootLexemes ==
  {LexOne, LexString, LexObjectBegin \o LexObjectEnd,
   LexArrayBegin \o LexOne \o LexArrayEnd, LexArrayBegin \o LexOne}

TrailingLexemes ==
  {LexSpace, LexTwo, LexBad, LexArrayEnd, LexObjectBegin, LexComma, LexCommentA,
   LexLF}

TrailingDocs ==
  {r \o t : r \in RootLexemes, t \in DocsOver(TrailingLexemes, MaxTrailingLen)}
  \cup {DocOneTwo, DocObjectBad, DocArrayEnd}

InitTrailing ==
  \E d \in TrailingDocs, f \in AllFeatures : Reading(d, f, TRUE, FreshRoot)

\* short documents of any lexemes, any Features
MaxProgressLen == 2

InitProgress ==
  \E d \in DocsOver(GeneralLexemes, MaxProgressLen), f \in AllFeatures :
    Reading(d, f, TRUE, FreshRoot)

\* the arrays handed to StyledWriter : up to MaxStyledSize times one child,
\* the first or the last of them replaced by a child of another layout
MaxStyledSize == 25

\* //a
LexLineComment == <<ChSlash, ChSlash, ChLowerA>>

StyledChildren ==
  {V("int", <<1>>), V("int", <<10>>), V("bool", <<1>>), V("string", <<ChLowerA>>),
   Compound("array", <<>>), Compound("object", <<>>)}

StyledOdd ==
  {Compound("array", <<Kid(<<>>, V("int", <<1>>))>>),
   Compound("object", <<Kid(<<ChLowerA>>, V("int", <<1>>))>>),
   [V("int", <<1>>) EXCEPT !.before = LexCommentA],
   [V("int", <<1>>) EXCEPT !.afterSame = LexLineComment],
   [V("int", <<1>>) EXCEPT !.after = LexCommentA \o LexLF \o LexCommentB]}

Repeated(child, n) == [i \in 1..n |-> Kid(<<>>, child)]

StyledSources ==
  {Compound("array", Repeated(c, n)) : c \in StyledChildren, n \in 0..MaxStyledSize}
  \cup UNION {{Compound("array", [Repeated(c, n) EXCEPT ![k] = Kid(<<>>, o)]) :
                 k \in {1, n}, o \in StyledOdd} :
              c \in StyledChildren, n \in 1..MaxStyledSize}

InitStyled == \E v \in StyledSources : Styling(v)

\* the specifications : the steps of the reader and of the writer from the
\* inputs of one family, and from the Value every step is taken on
Init ==
  \/ InitGeneral
  \/ InitObjects
  \/ InitArrays
  \/ InitComments
  \/ InitStrings
  \/ InitNumbers
  \/ InitWriter

Spec == Init /\ [][Next]_vars

SpecGeneral == (InitGeneral \/ InitSmoke) /\ [][Next]_vars

SpecArrays == (InitArrays \/ InitSmoke) /\ [][Next]_vars

SpecComments == (InitComments \/ InitSmoke) /\ [][Next]_vars

SpecStrings == (InitStrings \/ InitSmoke) /\ [][Next]_vars

SpecNumbers == (InitNumbers \/ InitSmoke) /\ [][Next]_vars

SpecWriter == (InitWriter \/ InitSmoke) /\ [][Next]_vars

SpecStyled == (InitStyled \/ InitSmoke) /\ [][Next]_vars

SpecTrailing == (InitTrailing \/ InitSmoke) /\ [][Next]_vars

\* a call of parse is run to its return : the steps of the reader are taken
\* as long as one is possible
SpecProgress ==
  /\ InitProgress \/ InitSeparators \/ InitSmoke
  /\ [][Next]_vars
  /\ WF_vars(Parsing)

-----------------------------------------------------------------------------
(* What parse returns.                                                      *)

\* C1 : when parse has returned, it returned true if and only if the error
\* list is empty (good() is true), and it returned false only with at least
\* one error recorded; this holds for every call of a sequence of calls on
\* one Reader, whatever errors the Reader held before the call.
ParseTrueIffGood ==
  pc = "done" => /\ result <=> Good
                 /\ ~result => Len(errors) >= 1

\* a parse that was not stopped at the root has returned false with an error
ParseFailedWithError ==
  /\ pc = "done"
  /\ ~result
  /\ stack = <<>>
  /\ Len(nodes) > 1
  /\ Len(errors) = 1
  /\ errors[1].message # StrictRootMessage

\* parse stopped at line 125, before readValue(root)
StoppedAtRoot ==
  /\ errors # <<>>
  /\ errors[1].message = StrictRootMessage

\* readValue was called on the node n of the tree
Touched(n) == n > 1 \/ ~StoppedAtRoot

\* C2 : after parse of a document of length L, every Value readValue was
\* called on (the root, every array element, every object member, the
\* dropped null placeholders too) has 0 <= offset_start <= offset_limit <= L,
\* and a token starts at offset_start.
OffsetsOrdered ==
  pc = "done" =>
    \A n \in 1..Len(nodes) :
      Touched(n) => /\ 0 <= nodes[n].start
                    /\ nodes[n].start <= nodes[n].limit
                    /\ nodes[n].limit <= DocLen
                    /\ ReadToken(nodes[n].start).token.start = nodes[n].start

\* a dropped null placeholder that is not at the start of the document
PlaceholderOffsets ==
  /\ pc = "done"
  /\ result
  /\ \E n \in 2..Len(nodes) :
       /\ nodes[n].type = "null"
       /\ nodes[n].start > 0
       /\ nodes[n].limit = nodes[n].start + 1
       /\ At(nodes[n].start) = ChComma

\* the first token the comment gatherer obtains
FirstToken == SkipCommentTokens(<<>>, 0, 0, <<rootIn>>, CollectComments).token

\* the root has the payload and the offsets the caller gave it
RootUntouched ==
  /\ Len(nodes) = 1
  /\ nodes[1].type = rootIn.type
  /\ nodes[1].val = rootIn.val
  /\ nodes[1].start = rootIn.start
  /\ nodes[1].limit = rootIn.limit

\* C10 : with strictRoot, when the first token the comment gatherer obtains
\* is neither ObjectBegin nor ArrayBegin, parse records exactly one error,
\* 'A valid JSON document must be either an array or an object value.',
\* returns false and never calls readValue on the root, whose payload and
\* offsets are left as they were.
StrictRootStops ==
  /\ pc = "done" /\ features.strictRoot /\ FirstToken.type # "ObjectBegin"
                 /\ FirstToken.type # "ArrayBegin"
       => /\ errors = <<ErrorInfo(FirstToken, StrictRootMessage, NoExtra)>>
          /\ ~result
          /\ RootUntouched
  /\ pc \in {"readValue", "return"} /\ features.strictRoot /\ cur = 1
       => FirstToken.type \in {"ObjectBegin", "ArrayBegin"}

\* the document 1 was refused on a root that held a value
StrictRootRefusedNumber ==
  /\ pc = "done"
  /\ features.strictRoot
  /\ FirstToken.type = "Number"
  /\ rootIn = UsedRoot
  /\ ~result

-----------------------------------------------------------------------------
(* Numbers.                                                                 *)

\* an optional '-' followed by decimal digits, and nothing else
IsIntegral(text) ==
  /\ Len(text) > BoolInt(IsNegative(text))
  /\ \A i \in (1 + BoolInt(IsNegative(text)))..Len(text) : IsDigit(text[i])

\* the integer such a text denotes
Denoted(text) ==
  IF IsNegative(text) THEN 0 - DigitsValue(Tail(text)) ELSE DigitsValue(text)

\* the double nearest to the integer v, which is exact for the inputs
AsDouble(v) == IF v < 0 THEN Finite(1, 0 - v, 0) ELSE Finite(0, v, 0)

\* the Value the triage owes the integer v
Triaged(node, v) ==
  IF v >= MinInt /\ v <= MaxInt THEN node.type = "int" /\ node.val = <<v>>
  ELSE IF v >= 0 /\ v <= MaxUInt THEN node.type = "uint" /\ node.val = <<v>>
  ELSE node.type = "real" /\ node.val = AsDouble(v)

\* C3 : for every Number token made of an optional '-' and decimal digits,
\* decodeNumber produces a signed integer exactly when the denoted value is
\* in [-2^(w-1), 2^(w-1)-1], otherwise an unsigned integer exactly when the
\* value is non-negative and at most 2^w-1, and otherwise a double; the
\* boundaries and the strings whose accumulation wraps around included.
NumberTriage ==
  pc = "return" /\ token.type = "Number" /\ IsIntegral(TokenText(token))
    => ret /\ Triaged(nodes[cur], Denoted(TokenText(token)))

-----------------------------------------------------------------------------
(* Strings.                                                                 *)

\* the code unit of the \u escape at p, whose four digits are hexadecimal
CodeUnit(p) ==
  (HexValue(At(p + 2)) * 4096) + (HexValue(At(p + 3)) * 256)
  + (HexValue(At(p + 4)) * 16) + HexValue(At(p + 5))

IsEscapeU(p, end) == p + 6 <= end /\ At(p) = ChBackslash /\ At(p + 1) = ChLowerU

\* the text [p, end) of a string has a lone surrogate escape : a high one
\* that no low one follows at once, or a low one that no high one precedes
\* at once; afterHigh says that a high one ends at p
RECURSIVE LoneSurrogate(_, _, _)
LoneSurrogate(p, end, afterHigh) ==
  IF p >= end THEN afterHigh
  ELSE IF IsEscapeU(p, end) /\ IsLowSurrogate(CodeUnit(p))
    THEN ~afterHigh \/ LoneSurrogate(p + 6, end, FALSE)
  ELSE IF afterHigh THEN TRUE
  ELSE IF IsEscapeU(p, end) THEN LoneSurrogate(p + 6, end, IsHighSurrogate(CodeUnit(p)))
  ELSE IF At(p) = ChBackslash THEN LoneSurrogate(p + 2, end, FALSE)
  ELSE LoneSurrogate(p + 1, end, FALSE)

\* the document is one String token
OneString == FirstToken = Token("String", 0, DocLen)

\* C4 : decoding a String token that contains a lone UTF-16 surrogate escape
\* (a high surrogate that is the last thing in the string included) fails,
\* records exactly one error, 'Misplaced UTF-16 surrogate', and produces no
\* string value.
LoneSurrogateFails ==
  pc = "done" /\ OneString /\ LoneSurrogate(1, DocLen - 1, FALSE)
    => /\ ~result
       /\ Len(errors) = 1
       /\ errors[1].message = Msg("Misplaced UTF-16 surrogate")
       /\ nodes[1].type = "null"

\* C5 : for every string s, the text valueToQuotedString(s) is lexed as one
\* String token and decoded to s byte for byte : the quote, the backslash,
\* \b, \f, \n, \r, \t and the other control bytes, written \u00XX, come back
\* as themselves, and every other byte passes through unchanged.
EscapeRoundTrip ==
  pc = "done" /\ source.type = "string"
    => /\ doc = ValueToQuotedString(source.val) \o <<ChLF>>
       /\ ReadToken(0).token = Token("String", 0, DocLen - 1)
       /\ result
       /\ nodes[1].type = "string"
       /\ nodes[1].val = source.val

\* the control byte 31 and a quote came back
EscapedBytesCameBack ==
  /\ pc = "done"
  /\ source = V("string", <<31, ChQuote>>)
  /\ doc = <<ChQuote, ChBackslash, ChLowerU, Ch0, Ch0, 49, ChUpperF, ChBackslash,
             ChQuote, ChQuote, ChLF>>
  /\ nodes[1].val = <<31, ChQuote>>

-----------------------------------------------------------------------------
(* The compact round trip.                                                  *)

\* the Values of the tree whose parent is n
Children(n) == {c \in 1..Len(nodes) : nodes[c].parent = n}

\* the key the reader gives the i-th child of a Value of this type
KeyOf(type, kids, i) == IF type = "array" THEN <<i - 1>> ELSE kids[i].name

\* the node n of the tree is structurally equal to value, every number being
\* in the domain it has in value
RECURSIVE SameTree(_, _)
SameTree(value, n) ==
  IF value.type \in {"array", "object"}
    THEN /\ nodes[n].type = value.type
         /\ Cardinality(Children(n)) = Len(value.kids)
         /\ \A i \in 1..Len(value.kids) :
              \E c \in Children(n) :
                /\ nodes[c].key = KeyOf(value.type, value.kids, i)
                /\ SameTree(value.kids[i].value, c)
    ELSE nodes[n].type = value.type /\ nodes[n].val = value.val

IsNumber(type) == type \in {"int", "uint", "real"}

\* the number of a numeric payload, as a double; the zeros are one number
NumberOf(type, val) ==
  IF type = "real" THEN (IF val[1] = 0 /\ val[3] = 0 THEN <<0, 0, 0, 0>> ELSE val)
  ELSE AsDouble(val[1])

IsNaN(value) == value.type = "real" /\ value.val[1] = 2

\* the node n of the tree is structurally equal to value up to the numbers :
\* a NaN is null, any other number is the same number in some domain
RECURSIVE SameTreeUpToDomain(_, _)
SameTreeUpToDomain(value, n) ==
  IF value.type \in {"array", "object"}
    THEN /\ nodes[n].type = value.type
         /\ Cardinality(Children(n)) = Len(value.kids)
         /\ \A i \in 1..Len(value.kids) :
              \E c \in Children(n) :
                /\ nodes[c].key = KeyOf(value.type, value.kids, i)
                /\ SameTreeUpToDomain(value.kids[i].value, c)
  ELSE IF IsNaN(value) THEN nodes[n].type = "null"
  ELSE IF IsNumber(value.type)
    THEN /\ IsNumber(nodes[n].type)
         /\ NumberOf(nodes[n].type, nodes[n].val) = NumberOf(value.type, value.val)
  ELSE nodes[n].type = value.type /\ nodes[n].val = value.val

\* parse has returned from the document FastWriter::write made of source
Reparsed == pc = "done" /\ source # NoSource /\ doc = FastWriterWrite(source)

\* C6 : for every comment-free Value v, parsing FastWriter::write(v) with
\* the lenient reader succeeds and yields a tree structurally equal to v,
\* where each number keeps the domain (signed, unsigned, real) it had in v.
RoundTripKeepsDomain == Reparsed => result /\ SameTree(source, 1)

\* C6, amended : parsing FastWriter::write(v) with the lenient reader
\* succeeds and yields a tree structurally equal to v up to the numbers : a
\* NaN comes back as null, and every other number comes back as the same
\* number, in the domain decodeNumber selects for its text.
RoundTripUpToDomain == Reparsed => result /\ SameTreeUpToDomain(source, 1)

\* the array of a NaN and of -1 came back as the array of null and of -1
NaNCameBackNull ==
  /\ Reparsed
  /\ source = Compound("array", <<Kid(<<>>, V("real", <<2, 0, 0, 0>>)),
                                  Kid(<<>>, V("int", <<0 - 1>>))>>)
  /\ result
  /\ nodes[2].type = "null"
  /\ nodes[3].type = "int" /\ nodes[3].val = <<0 - 1>>

-----------------------------------------------------------------------------
(* Comments.                                                                *)

NoComment(n) ==
  nodes[n].before = <<>> /\ nodes[n].afterSame = <<>> /\ nodes[n].after = <<>>

\* the tree is the array [1, 2]
IsOneTwo ==
  /\ Len(nodes) = 3
  /\ nodes[1].type = "array"
  /\ nodes[2].parent = 1 /\ nodes[2].key = <<0>>
  /\ nodes[2].type = "int" /\ nodes[2].val = <<1>>
  /\ nodes[3].parent = 1 /\ nodes[3].key = <<1>>
  /\ nodes[3].type = "int" /\ nodes[3].val = <<2>>

\* C7 : with the lenient features and collectComments, parsing [1, /*x*/ 2]
\* yields the array [1, 2] in which the value 2 carries Before = "/*x*/" and
\* the value 1 carries no comment.
CommentGoesToNext ==
  pc = "done" /\ doc = DocCommentAfterComma /\ features = FeaturesAll /\ collectArg
    => /\ result
       /\ IsOneTwo
       /\ nodes[3].before = LexCommentX
       /\ NoComment(2)

\* C7, amended : a comment that follows an array separator on the line of the
\* preceding element is attached to that element's AfterOnSameLine slot, so
\* [1, /*x*/ 2] yields [1, 2] in which the value 1 carries AfterOnSameLine =
\* "/*x*/" and the value 2 carries no comment; the comment goes to the Before
\* slot of the next element when a line break separates it from the
\* preceding one, as in [1,<LF>/*x*/ 2].
CommentGoesToPrevious ==
  /\ pc = "done" /\ doc = DocCommentAfterComma /\ features = FeaturesAll /\ collectArg
       => /\ result
          /\ IsOneTwo
          /\ nodes[2].afterSame = LexCommentX
          /\ nodes[2].before = <<>> /\ nodes[2].after = <<>>
          /\ NoComment(1) /\ NoComment(3)
  /\ pc = "done" /\ doc = DocCommentOnNextLine /\ features = FeaturesAll /\ collectArg
       => /\ result
          /\ IsOneTwo
          /\ nodes[3].before = LexCommentX
          /\ nodes[3].afterSame = <<>> /\ nodes[3].after = <<>>
          /\ NoComment(1) /\ NoComment(2)

\* [1, /*x*/ 2] was parsed and the comment is on the value 1
CommentOnPrevious ==
  /\ pc = "done"
  /\ doc = DocCommentAfterComma
  /\ result
  /\ nodes[2].afterSame = LexCommentX

\* how many times the text c occurs in text from the position i on
RECURSIVE Occurrences(_, _, _)
Occurrences(text, c, i) ==
  IF i + Len(c) - 1 > Len(text) THEN 0
  ELSE BoolInt(SubSeq(text, i, i + Len(c) - 1) = c) + Occurrences(text, c, i + 1)

\* how many times c is in the comment slots of the Values n .. of the tree
RECURSIVE Owned(_, _)
Owned(c, n) ==
  IF n > Len(nodes) THEN 0
  ELSE Occurrences(nodes[n].before, c, 1) + Occurrences(nodes[n].afterSame, c, 1)
       + Occurrences(nodes[n].after, c, 1) + Owned(c, n + 1)

\* how many Comment tokens of text c readToken produced from p up to current_
RECURSIVE Consumed(_, _)

ConsumedAfter(c, rt) ==
  BoolInt(rt.token.type = "Comment" /\ TokenText(rt.token) = c)
  + Consumed(c, rt.current)

Consumed(c, p) == IF p >= current THEN 0 ELSE ConsumedAfter(c, ReadToken(p))

\* C8 : after a successful parse with comments allowed and collected, every
\* Comment token consumed is in exactly one comment slot of exactly one
\* Value : none is attached twice, none is dropped and none is overwritten by
\* a later attachment.
EveryCommentOwnedOnce ==
  pc = "done" /\ result /\ features.allowComments /\ collectArg
    => \A c \in {LexCommentA, LexCommentB, LexCommentX} :
         Owned(c, 1) = Consumed(c, 0)

-----------------------------------------------------------------------------
(* Dropped null placeholders.                                               *)

\* the Value n is the i-th item of the root, the integer v
IsItemInt(n, i, v) ==
  /\ nodes[n].parent = 1 /\ nodes[n].key = <<i>>
  /\ nodes[n].type = "int" /\ nodes[n].val = <<v>>

\* the Value n is the i-th item of the root, a null
IsItemNull(n, i) ==
  /\ nodes[n].parent = 1 /\ nodes[n].key = <<i>>
  /\ nodes[n].type = "null"

\* readValue has just returned from a call on the token it was entered with
ReadOn(type) ==
  /\ pc = "return"
  /\ token.type = type
  /\ nodes[cur].start = token.start
  /\ nodes[cur].limit = token.end

SyntaxError(tok) == ErrorInfo(tok, SyntaxErrorMessage, NoExtra)

\* C9 : with allowDroppedNullPlaceholders, an ArraySeparator found where an
\* array element is expected gives a null element without a further token
\* being consumed, and an ArrayEnd after a separator ends the array, so that
\* [1,,2] is the three items 1, null, 2; without the feature, an array with
\* an empty element slot, a separator or a closing bracket where an element
\* is expected, makes parse fail with 'Syntax error: value, object or array
\* expected.'.
DroppedNullPlaceholders ==
  /\ ReadOn("ArraySeparator") /\ features.allowDroppedNullPlaceholders
       => ret /\ nodes[cur].type = "null" /\ current = token.end
  /\ pc = "readValue" /\ features.allowDroppedNullPlaceholders /\ cur > 1
       => token.type # "ArrayEnd"
  /\ pc = "done" /\ doc = DocDropped /\ features.allowDroppedNullPlaceholders
       => /\ result
          /\ Len(nodes) = 4
          /\ nodes[1].type = "array"
          /\ IsItemInt(2, 0, 1) /\ IsItemNull(3, 1) /\ IsItemInt(4, 2, 2)
  /\ pc = "done" /\ doc = DocTrailing /\ features.allowDroppedNullPlaceholders
       => result /\ Len(nodes) = 2 /\ nodes[1].type = "array" /\ IsItemInt(2, 0, 1)
  /\ (ReadOn("ArraySeparator") \/ ReadOn("ArrayEnd"))
     /\ ~features.allowDroppedNullPlaceholders
       => ~ret /\ errors = <<SyntaxError(token)>>
  /\ pc = "done" /\ ~features.allowDroppedNullPlaceholders
     /\ (\E n \in 2..Len(nodes) :
           nodes[n].start < DocLen
           /\ At(nodes[n].start) \in {ChComma, ChRBracket})
       => /\ ~result
          /\ Len(errors) = 1
          /\ errors[1].message = SyntaxErrorMessage

\* [1,,2] was parsed with the feature, and its second item is the separator
DroppedNullRead ==
  /\ pc = "done"
  /\ doc = DocDropped
  /\ features.allowDroppedNullPlaceholders
  /\ result
  /\ nodes[3].type = "null"
  /\ nodes[3].start = 3 /\ nodes[3].limit = 4

-----------------------------------------------------------------------------
(* pushError.                                                               *)

\* every offset the last call of pushError was given is within the document
SuppliedOffsetsValid ==
  /\ pushed.start <= DocLen
  /\ pushed.limit <= DocLen
  /\ pushed.withExtra => pushed.extraStart <= DocLen /\ pushed.extraLimit <= DocLen

\* the error the last call of pushError appended, as getStructuredErrors
\* reports it
ReportedPush == GetStructuredErrors[Len(pushed.before) + 1]

\* C11 : a call of pushError, with or without extra, whose offsets are all at
\* most the document length appends exactly one error, which
\* getStructuredErrors reports with offset_start = value.offset_start and
\* offset_limit = value.offset_limit, and returns true; any other call
\* returns false and leaves the error list as it was.
PushErrorReportsRange ==
  pushed.calls > 0 =>
    IF SuppliedOffsetsValid
      THEN /\ pushed.returned
           /\ Len(errors) = Len(pushed.before) + 1
           /\ SubSeq(errors, 1, Len(pushed.before)) = pushed.before
           /\ ReportedPush.offset_start = pushed.start
           /\ ReportedPush.offset_limit = pushed.limit
      ELSE ~pushed.returned /\ errors = pushed.before

-----------------------------------------------------------------------------
(* String literals.                                                         *)

\* the document is a quote, some bytes and a quote
Quoted == DocLen >= 2 /\ doc[1] = ChQuote /\ doc[DocLen] = ChQuote

\* the bytes between the two quotes
Content == SubSeq(doc, 2, DocLen - 1)

\* neither a quote nor a backslash between the two quotes
PlainContent ==
  \A i \in 1..Len(Content) : Content[i] # ChQuote /\ Content[i] # ChBackslash

\* C12 : a NUL byte within a string literal is data : the lexer emits one
\* String token up to the closing quote, and the decoded string holds the
\* NUL; the byte neither ends the token nor makes it an Error or EndOfStream
\* token.
RawNulIsData ==
  pc = "done" /\ Quoted /\ PlainContent
  /\ (\E i \in 1..Len(Content) : Content[i] = 0)
    => /\ FirstToken = Token("String", 0, DocLen)
       /\ result
       /\ nodes[1].type = "string"
       /\ nodes[1].val = Content

\* the last location of the content of a one-string document
ContentEnd == DocLen - 1

\* no backslash in the content before p
PlainBefore(p) == \A i \in 1..(p - 1) : At(i) # ChBackslash

\* the \u escape at p has its four digits, all hexadecimal
WellFormedEscapeU(p) ==
  /\ IsEscapeU(p, ContentEnd)
  /\ \A k \in 2..5 : HexValue(At(p + k)) >= 0

IsSurrogate(unit) == IsHighSurrogate(unit) \/ IsLowSurrogate(unit)

\* the first escape of the content is a high surrogate, at p, and a \u escape
\* of a code unit which is no surrogate follows it at once
OtherAfterHigh(p) ==
  /\ PlainBefore(p)
  /\ WellFormedEscapeU(p) /\ IsHighSurrogate(CodeUnit(p))
  /\ WellFormedEscapeU(p + 6) /\ ~IsSurrogate(CodeUnit(p + 6))

\* C13 : a \u escape of a code unit that is neither a high nor a low
\* surrogate fails the decoding when a high surrogate is pending : the
\* content \uD834A, followed by \uDD1E or not, is rejected.
PendingSurrogateRejectsOther ==
  pc = "done" /\ OneString /\ (\E p \in 1..DocLen : OtherAfterHigh(p))
    => ~result /\ errors # <<>> /\ nodes[1].type = "null"

\* the first backslash of the content is at p and begins a \u escape
FirstEscapeIsU(p) ==
  /\ PlainBefore(p)
  /\ p + 2 <= ContentEnd
  /\ At(p) = ChBackslash /\ At(p + 1) = ChLowerU

\* fewer than four bytes are left after the \u at p, or one of the four is no
\* hexadecimal digit
Malformed(p) ==
  \/ p + 6 > ContentEnd
  \/ \E k \in 2..5 : HexValue(At(p + k)) < 0

\* the decoding failed on the \u escape at p
BadEscapeAt(p) ==
  /\ ~result
  /\ Len(errors) = 1
  /\ errors[1].message = Msg("Bad escape sequence in string")
  /\ errors[1].extra <= p + 6

\* the content is the one \u escape, of a code unit that is no surrogate
OneEscapeU == DocLen = 8 /\ WellFormedEscapeU(1) /\ ~IsSurrogate(CodeUnit(1))

\* C14 : a \u escape gives 'Bad escape sequence in string' exactly when fewer
\* than four bytes are left before the closing quote or one of the next four
\* bytes is no hexadecimal digit; a \u with four hexadecimal digits, \u0000
\* included, is accepted and decoded as that code unit.
BadEscapeIffMalformed ==
  pc = "done" /\ OneString
    => /\ \A p \in 1..DocLen : FirstEscapeIsU(p) => (BadEscapeAt(p) <=> Malformed(p))
       /\ OneEscapeU
            => /\ result
               /\ nodes[1].type = "string"
               /\ nodes[1].val = CodePointToUTF8(CodeUnit(1))

-----------------------------------------------------------------------------
\* a line terminator ends at offset j : a line feed, alone or after a
\* carriage return, or a carriage return the document does not follow with a
\* line feed
TerminatorEndsAt(j) ==
  /\ j \in 1..DocLen
  /\ \/ At(j - 1) = ChLF
     \/ At(j - 1) = ChCR /\ ~(j < DocLen /\ At(j) = ChLF)

\* the ends of the line terminators that lie entirely before offset p
TerminatorsBefore(p) == {j \in 1..p : TerminatorEndsAt(j)}

\* the start of the line offset p is on
LineStart(p) ==
  IF TerminatorsBefore(p) = {} THEN 0
  ELSE CHOOSE j \in TerminatorsBefore(p) : \A k \in TerminatorsBefore(p) : k <= j

\* the line and column of offset p, counted from 1
LineAndColumn(p) ==
  [location |-> p, line |-> 1 + Cardinality(TerminatorsBefore(p)),
   column |-> (p - LineStart(p)) + 1]

\* C16 : the line getLocationLineAndColumn gives for an offset p is 1 plus
\* the number of line terminators entirely before p, CRLF counting once, and
\* the column is p minus the start of that line plus 1; both are at least 1,
\* also when p is at the LF of a CRLF pair.
PositionsCountTerminators ==
  \A i \in 1..Len(located.positions) :
    /\ located.positions[i] = LineAndColumn(located.positions[i].location)
    /\ located.positions[i].line >= 1
    /\ located.positions[i].column >= 1

-----------------------------------------------------------------------------
\* StyledWriter::write has returned the document of a non-empty array that
\* has no comment of its own
StyledArray ==
  /\ pc = "styled"
  /\ source.type = "array"
  /\ Len(source.kids) > 0
  /\ ~HasCommentForValue(source)

\* the array is written over several lines : a line end follows its '['
WrittenMultiLine == Len(doc) >= 2 /\ doc[1] = ChLBracket /\ doc[2] = ChLF

\* the serialized length of the children, each a scalar or an empty array or
\* object
RECURSIVE SerializedLengths(_, _)
SerializedLengths(kids, i) ==
  IF i > Len(kids) THEN 0
  ELSE Len(IF kids[i].value.type = "array" THEN <<ChLBracket, ChRBracket>>
           ELSE IF kids[i].value.type = "object" THEN <<ChLBrace, ChRBrace>>
           ELSE ScalarText(kids[i].value))
       + SerializedLengths(kids, i + 1)

NonEmptyCompound(value) ==
  value.type \in {"array", "object"} /\ Len(value.kids) > 0

\* the four conditions under which the array is to be written multi-line
ToBeMultiLine(value) ==
  \/ Len(value.kids) * 3 >= RightMargin
  \/ \E i \in 1..Len(value.kids) : NonEmptyCompound(value.kids[i].value)
  \/ \E i \in 1..Len(value.kids) : HasCommentForValue(value.kids[i].value)
  \/ /\ \A i \in 1..Len(value.kids) : ~NonEmptyCompound(value.kids[i].value)
     /\ (4 + 2 * (Len(value.kids) - 1)) + SerializedLengths(value.kids, 1)
          > RightMargin

\* a, b, c
RECURSIVE Joined(_, _)
Joined(kids, i) ==
  IF i > Len(kids) THEN <<>>
  ELSE (IF i > 1 THEN <<ChComma, ChSpace>> ELSE <<>>)
       \o (IF kids[i].value.type = "array" THEN <<ChLBracket, ChRBracket>>
           ELSE IF kids[i].value.type = "object" THEN <<ChLBrace, ChRBrace>>
           ELSE ScalarText(kids[i].value))
       \o Joined(kids, i + 1)

\* [ a, b, c ] and the line end that closes the document
OnOneLine(kids) ==
  <<ChLBracket, ChSpace>> \o Joined(kids, 1) \o <<ChSpace, ChRBracket, ChLF>>

\* C15 : StyledWriter writes a non-empty array multi-line if and only if
\* size * 3 >= 74, or a child is a non-empty array or object, or a child has
\* a comment, or 4 + 2 * (size - 1) + the serialized lengths of the children
\* is strictly greater than 74; otherwise it writes it on one line as
\* [ a, b, c ], also when that length is exactly 74.
ArrayLayoutByMargin ==
  StyledArray
    => /\ WrittenMultiLine <=> ToBeMultiLine(source)
       /\ ~ToBeMultiLine(source) => doc = OnOneLine(source.kids)

-----------------------------------------------------------------------------
\* parse is running : it was called and has not returned
Begun ==
  pc \in {"readValue", "arrayLoop", "objectLoop", "return", "arrayClose",
          "objectClose"}

\* the token last read lies in the document and ends at current_
TokenWithinDocument ==
  Begun \/ pc = "done"
    => /\ 0 <= token.start
       /\ token.start <= token.end
       /\ token.end = current
       /\ current <= DocLen

\* readToken from any location p of the document gives a token of the
\* document from p on that ends at the new current_, and consumes a byte
\* unless p is the end, where it gives EndOfStream
ReadTokenAdvances ==
  \A p \in 0..DocLen :
    /\ p <= ReadToken(p).token.start
    /\ ReadToken(p).token.start <= ReadToken(p).token.end
    /\ ReadToken(p).token.end = ReadToken(p).current
    /\ ReadToken(p).current <= DocLen
    /\ \/ ReadToken(p).current > p
       \/ p = DocLen /\ ReadToken(p).token.type = "EndOfStream"

\* the head of the loop of readArray and of readObject is reached from a
\* token that was consumed : the '[' or '{' or the separator
LoopHeadAfterToken ==
  pc \in {"arrayLoop", "objectLoop"}
    => /\ token.type \in {"ArrayBegin", "ObjectBegin", "ArraySeparator"}
       /\ token.end > token.start

\* a turn of the loop of readArray or of readObject, and the comment
\* gatherer it runs, consumes a byte or is at the end of the document
LoopTurnAdvances ==
  pc \in {"arrayLoop", "objectLoop"} /\ pc' # pc
    => current' > current \/ (current = DocLen /\ token'.type = "EndOfStream")

\* C17 : every readToken leaves begin <= token.start <= token.limit = current
\* <= end and consumes a byte unless it is called at the end, where it gives
\* EndOfStream; every turn of the loops of readArray and readObject and of
\* the comment gatherer consumes a byte or leaves the loop; so parse returns
\* on every document with every Features, runs of separators included.
ProgressAndTermination ==
  /\ [](TokenWithinDocument /\ ReadTokenAdvances /\ LoopHeadAfterToken)
  /\ [][LoopTurnAdvances]_vars
  /\ Begun ~> pc = "done"

\* parse has returned from [,,,, read with allowDroppedNullPlaceholders, the
\* four separators read as null and the end of the document as an error
SeparatorsRead ==
  /\ pc = "done"
  /\ doc = LexArrayBegin \o Separators(MaxSeparators)
  /\ features.allowDroppedNullPlaceholders
  /\ current = DocLen
  /\ token.type = "EndOfStream"
  /\ \A i \in 1..MaxSeparators : nodes[i + 1].type = "null"

-----------------------------------------------------------------------------
\* readValue(root) has returned true to parse
RootSucceeded == pc = "return" /\ stack = <<>> /\ ret

\* the payload and the place of every Value of the tree
Payloads(ns) ==
  [n \in 1..Len(ns) |->
     <<ns[n].type, ns[n].val, ns[n].parent, ns[n].key, ns[n].start, ns[n].limit>>]

\* parse returns true with no error and the tree readValue left, having read
\* one more token that is no gathered comment, and nothing after it
ReturnsTrue ==
  /\ pc' = "done"
  /\ result'
  /\ errors' = <<>>
  /\ Payloads(nodes') = Payloads(nodes)
  /\ nodes[1].limit <= token'.start
  /\ token'.end = current'
  /\ features.allowComments => token'.type # "Comment"

\* the root of the tree is the integer 1, the empty object, the array [1]
RootIsOne ==
  Len(nodes) = 1 /\ nodes[1].type = "int" /\ nodes[1].val = <<1>>

RootIsEmptyObject == Len(nodes) = 1 /\ nodes[1].type = "object"

RootIsArrayOfOne ==
  /\ Len(nodes) = 2
  /\ nodes[1].type = "array"
  /\ nodes[2].parent = 1 /\ nodes[2].type = "int" /\ nodes[2].val = <<1>>

\* parse of d has returned, the root being allowed by the Features
ParsedLenient(d) == pc = "done" /\ doc = d /\ ~features.strictRoot

\* 1 2, {} x and [1]] are parsed to 1, {} and [1]
TrailingExamples ==
  /\ ParsedLenient(DocOneTwo) => result /\ errors = <<>> /\ RootIsOne
  /\ pc = "done" /\ doc = DocObjectBad
       => result /\ errors = <<>> /\ RootIsEmptyObject
  /\ pc = "done" /\ doc = DocArrayEnd
       => result /\ errors = <<>> /\ RootIsArrayOfOne

\* C18 : parse does not check what follows the root : once readValue(root)
\* has returned true, parse returns true with no error whatever the next
\* token that is no comment is, and reads nothing after that token; 1 2,
\* {} x and [1]] are parsed to 1, {} and [1].
TrailingContentIgnored ==
  /\ [][RootSucceeded => ReturnsTrue]_vars
  /\ []TrailingExamples

\* parse has returned true from 1 2, the token after the root being the 2
OneTwoParsed ==
  /\ ParsedLenient(DocOneTwo)
  /\ result
  /\ errors = <<>>
  /\ RootIsOne
  /\ token = Token("Number", 2, 3)


=============================================================================
